---- MODULE Spec2Model ----
(***************************************************************************)
(* Kids Chore Monitor: the decision engine (main.process_child and         *)
(* main.apply_firewall_action), the state store (state_manager.py), the    *)
(* firewall actuator (sophos_client.SophosClient.set_rule_status) and the  *)
(* run orchestrator (main.run_chore_check).                                *)
(*                                                                         *)
(* Dates: today_str is strftime('%Y-%m-%d') of the local date, which is    *)
(* injective on dates, so a date string is modelled by its day number and  *)
(* string equality by equality of day numbers.  The empty string is 0.     *)
(***************************************************************************)
EXTENDS Integers, Sequences, FiniteSets, TLC

VARIABLES
    pc,        \* run_chore_check: "idle", "children", "save", "done", "aborted",
               \* "config_error", "crashed"; "unit": direct calls
    idx,       \* index into CHILDREN_CONFIG of the next child of the running loop
    services,  \* the services dict: which of todoist / sophos / state_manager is not None
    now,       \* the wall clock: [day, hour]
    state,     \* StateManager._state, the in-memory dict (lowercased name -> date)
    file,      \* content of the state file on disk
    rules,     \* the firewall: rule name -> "enable" | "disable"
    last,      \* record of the latest process_child invocation
    prev,      \* the invocation before it, when it had the same arguments and marked the store
    loaded,    \* how load_state of the current run ended: "none" before any load
    saved,     \* the dict the latest successful save_state wrote (history)
    log        \* the calls run_chore_check has made in the current run, in order

vars == <<pc, idx, services, now, state, file, rules, last, prev, loaded, saved, log>>

----------------------------------------------------------------------------
(* Bounds and program constants *)

MaxDay == 2

CUTOFF_HOUR == 14

Days == 1..MaxDay
Hours == 0..23

----------------------------------------------------------------------------
(* Names *)

ChildNames == {"Daniel", "Sophie"}

\* str.lower() on the names that occur
Lower(s) ==
    CASE s = "Daniel" -> "daniel"
      [] s = "DANIEL" -> "daniel"
      [] s = "Sophie" -> "sophie"
      [] s = "SOPHIE" -> "sophie"
      [] OTHER -> s

Keys == {Lower(n) : n \in ChildNames}

SectionOf(n) == IF n = "Daniel" THEN "section_daniel" ELSE "section_sophie"
RuleOf(n) == IF n = "Daniel" THEN "Daniel_Block_Rule" ELSE "Sophie_Block_Rule"

RuleNames == {RuleOf(n) : n \in ChildNames}

\* main.CHILDREN_CONFIG: the roster of a run (no auto_disable key)
CHILDREN_CONFIG ==
    << [name |-> "Daniel", todoist_section_id |-> SectionOf("Daniel"),
        sophos_rule_name |-> RuleOf("Daniel")],
       [name |-> "Sophie", todoist_section_id |-> SectionOf("Sophie"),
        sophos_rule_name |-> RuleOf("Sophie")] >>

\* child_config dicts handed to process_child directly, as the unit tests do:
\* complete ones with the auto_disable key either way, and ones that lack the
\* section id or the rule name
ChildConfigs ==
    { [name |-> n, todoist_section_id |-> SectionOf(n), sophos_rule_name |-> RuleOf(n),
       auto_disable |-> a] : n \in ChildNames, a \in BOOLEAN }
    \cup
    { [name |-> "Daniel", todoist_section_id |-> "", sophos_rule_name |-> RuleOf("Daniel"),
       auto_disable |-> TRUE],
      [name |-> "Sophie", todoist_section_id |-> SectionOf("Sophie"), sophos_rule_name |-> "",
       auto_disable |-> TRUE] }

----------------------------------------------------------------------------
(* state_manager.StateManager *)

\* every dict the store can hold
Stores == UNION { [K -> Days] : K \in SUBSET Keys }

EmptyStore == [k \in {} |-> 0]

\* (the lookup without lower())
check_if_done_today_RawName(st, child_name, today_str) ==
    IF child_name = "" \/ today_str = 0
    THEN FALSE
    ELSE child_name \in DOMAIN st /\ st[child_name] = today_str

check_if_done_today(st, child_name, today_str) ==
    IF child_name = "" \/ today_str = 0
    THEN FALSE
    ELSE LET normalized_child_name == Lower(child_name)
         IN  normalized_child_name \in DOMAIN st /\ st[normalized_child_name] = today_str

\* (the update without lower())
mark_done_today_RawName(st, child_name, today_str) ==
    IF child_name = "" \/ today_str = 0
    THEN st
    ELSE [k \in DOMAIN st \cup {child_name} |->
             IF k = child_name THEN today_str ELSE st[k]]

\* (the map replaced by the one entry)
mark_done_today_KeepsOnly(st, child_name, today_str) ==
    IF child_name = "" \/ today_str = 0
    THEN st
    ELSE [k \in {Lower(child_name)} |-> today_str]

mark_done_today(st, child_name, today_str) ==
    IF child_name = "" \/ today_str = 0
    THEN st
    ELSE LET normalized_child_name == Lower(child_name)
         IN  [k \in DOMAIN st \cup {normalized_child_name} |->
                 IF k = normalized_child_name THEN today_str ELSE st[k]]

\* json.dump(self._state, f, indent=4, sort_keys=True): the members of the object
\* as <<key, value>> pairs, in the order of the keys (code point order)
SortedKeys == <<"DANIEL", "Daniel", "SOPHIE", "Sophie", "daniel", "sophie">>

json_dump_FirstMember(st) ==
    LET ks == SelectSeq(SortedKeys, LAMBDA k : k \in DOMAIN st)
    IN  [i \in 1..(IF Len(ks) > 0 THEN 1 ELSE 0) |-> <<ks[i], st[ks[i]]>>]

json_dump(st) ==
    LET ks == SelectSeq(SortedKeys, LAMBDA k : k \in DOMAIN st)
    IN  [i \in 1..Len(ks) |-> <<ks[i], st[ks[i]]>>]

\* json.load of an object: a dict of its members (the last one of a name wins)
json_load(text) ==
    [k \in {text[i][1] : i \in DOMAIN text} |->
        LET i == CHOOSE j \in DOMAIN text :
                     /\ text[j][1] = k
                     /\ \A m \in DOMAIN text : text[m][1] = k => m <= j
        IN  text[i][2]]

\* The state file: absent; no JSON (invalid or truncated or empty text); JSON that
\* is no object; or a JSON object.
MissingFile == [kind |-> "missing", data |-> <<>>]
CorruptFile == [kind |-> "corrupt", data |-> <<>>]
NonObjectFile == [kind |-> "not_object", data |-> <<>>]
JsonFile(st) == [kind |-> "json", data |-> json_dump(st)]

\* what the file system does to a read: nothing, or an IOError / OSError
LoadFaults == {"none", "io_error"}

\* what it does to a write: nothing; makedirs or open() raises (the file is not
\* touched); or the write raises after open(path, 'w') truncated the file
SaveFaults == {"none", "open_failed", "write_failed"}

\* [state, how, raised]: the dict load_state puts in _state, the branch it took,
\* and whether an exception leaves it
load_state_KeepsNothing(f, fault) ==
    [state |-> EmptyStore, how |-> "ok", raised |-> FALSE]

\* (the I/O error let through)
load_state_Propagates(f, fault) ==
    IF f.kind = "missing"
    THEN [state |-> EmptyStore, how |-> "missing", raised |-> FALSE]
    ELSE IF fault = "io_error"
    THEN [state |-> EmptyStore, how |-> "io_error", raised |-> TRUE]
    ELSE IF f.kind \in {"corrupt", "not_object"}
    THEN [state |-> EmptyStore, how |-> f.kind, raised |-> FALSE]
    ELSE [state |-> json_load(f.data), how |-> "ok", raised |-> FALSE]

load_state(f, fault) ==
    IF f.kind = "missing"
    THEN [state |-> EmptyStore, how |-> "missing", raised |-> FALSE]
    ELSE IF fault = "io_error"
    THEN [state |-> EmptyStore, how |-> "io_error", raised |-> FALSE]
    ELSE IF f.kind = "corrupt"
    THEN [state |-> EmptyStore, how |-> "corrupt", raised |-> FALSE]
    ELSE IF f.kind = "not_object"
    THEN [state |-> EmptyStore, how |-> "not_object", raised |-> FALSE]
    ELSE [state |-> json_load(f.data), how |-> "ok", raised |-> FALSE]

\* [file, raised]: the file afterwards, and whether StateFileError is raised
\* (a save that raises although the file was written)
save_state_WrittenButRaises(f, st, fault) ==
    IF fault = "open_failed" THEN [file |-> JsonFile(st), raised |-> TRUE]
    ELSE IF fault = "write_failed" THEN [file |-> CorruptFile, raised |-> TRUE]
    ELSE [file |-> JsonFile(st), raised |-> FALSE]

save_state(f, st, fault) ==
    IF fault = "open_failed" THEN [file |-> f, raised |-> TRUE]
    ELSE IF fault = "write_failed" THEN [file |-> CorruptFile, raised |-> TRUE]
    ELSE [file |-> JsonFile(st), raised |-> FALSE]

----------------------------------------------------------------------------
(* sophos_client.SophosClient.set_rule_status *)

\* what can go wrong inside one set_rule_status call:
\*   rule_not_found    get_rule finds no such rule (SophosRuleNotFoundError)
\*   get_error         get_rule fails (auth, connection, API or unexpected error)
\*   update_rejected   submit_template answers with a non-2xx status code
\*   submit_exception  submit_template (or building its variables) raises
SophosFaults == {"none", "rule_not_found", "get_error", "update_rejected", "submit_exception"}

\* what the caller of set_rule_status sees
ActuatorOutcomes == {"True", "False", "SophosApiError"}

StatusStr(target_enabled_state) == IF target_enabled_state THEN "enable" ELSE "disable"

\* (the update submitted without the look at the current status)
set_rule_status_AlwaysSubmits(fw, rule_name, target_enabled_state, fault) ==
    IF fault \in {"rule_not_found", "get_error"} \/ rule_name \notin DOMAIN fw
    THEN [outcome |-> "False", rules |-> fw, submitted |-> FALSE]
    ELSE IF fault = "submit_exception"
    THEN [outcome |-> "SophosApiError", rules |-> fw, submitted |-> TRUE]
    ELSE IF fault = "update_rejected"
    THEN [outcome |-> "False", rules |-> fw, submitted |-> TRUE]
    ELSE [outcome |-> "True",
          rules |-> [fw EXCEPT ![rule_name] = StatusStr(target_enabled_state)],
          submitted |-> TRUE]

\* [outcome, rules, submitted]: the outcome, the firewall afterwards, and whether
\* an update was submitted to the firewall
set_rule_status(fw, rule_name, target_enabled_state, fault) ==
    IF fault \in {"rule_not_found", "get_error"} \/ rule_name \notin DOMAIN fw
    THEN [outcome |-> "False", rules |-> fw, submitted |-> FALSE]
    ELSE IF fw[rule_name] = StatusStr(target_enabled_state)
    THEN [outcome |-> "True", rules |-> fw, submitted |-> FALSE]
    ELSE IF fault = "submit_exception"
    THEN [outcome |-> "SophosApiError", rules |-> fw, submitted |-> TRUE]
    ELSE IF fault = "update_rejected"
    THEN [outcome |-> "False", rules |-> fw, submitted |-> TRUE]
    ELSE [outcome |-> "True",
          rules |-> [fw EXCEPT ![rule_name] = StatusStr(target_enabled_state)],
          submitted |-> TRUE]

----------------------------------------------------------------------------
(* main.py: the decision engine *)

\* (the cutoff hour itself counted as before the cutoff)
get_time_status_Exclusive(clock) ==
    [today_str |-> clock.day,
     current_hour |-> clock.hour,
     cutoff_hour |-> CUTOFF_HOUR,
     is_after_cutoff |-> clock.hour > CUTOFF_HOUR]

get_time_status(clock) ==
    [today_str |-> clock.day,
     current_hour |-> clock.hour,
     cutoff_hour |-> CUTOFF_HOUR,
     is_after_cutoff |-> clock.hour >= CUTOFF_HOUR]

\* what todoist_client.are_child_tasks_incomplete answers or raises
OracleOutcomes ==
    {"True", "False", "TodoistApiError", "TodoistClientError", "ValueError", "Exception"}

\* the calls process_child makes on its collaborators, in order
CheckCall(child_name, today_str) ==
    [op |-> "check_if_done_today", name |-> child_name, date |-> today_str]
OracleCall(section_id) ==
    [op |-> "are_child_tasks_incomplete", section_id |-> section_id]
SetCall(rule_name, target_enabled_state) ==
    [op |-> "set_rule_status", rule_name |-> rule_name,
     target_enabled_state |-> target_enabled_state]
MarkCall(child_name, today_str) ==
    [op |-> "mark_done_today", name |-> child_name, date |-> today_str]

\* The decisions of lines 249-306, each with the calls made to reach it and with
\* what the oracle answered (or "not_called").

\* lines 253-257: before the cutoff the rule is disabled (internet on)
BeforeCutoffDecision_Enable ==
    [intended_action |-> "ENABLE", reason |-> "before cutoff",
     should_update_state_on_success |-> FALSE, oracle |-> "not_called", calls |-> <<>>]

\* (the oracle asked before the cutoff as well)
BeforeCutoffDecision_AsksOracle ==
    [intended_action |-> "DISABLE", reason |-> "before cutoff",
     should_update_state_on_success |-> FALSE, oracle |-> "False",
     calls |-> <<OracleCall("")>>]

BeforeCutoffDecision ==
    [intended_action |-> "DISABLE", reason |-> "before cutoff",
     should_update_state_on_success |-> FALSE, oracle |-> "not_called", calls |-> <<>>]

\* lines 262-265: the state says the child is done today
AlreadyDoneDecision_Recheck(calls) ==
    [intended_action |-> "ENABLE", reason |-> "already completed today (state)",
     should_update_state_on_success |-> FALSE, oracle |-> "not_called", calls |-> calls]

AlreadyDoneDecision(calls) ==
    [intended_action |-> "DISABLE", reason |-> "already completed today (state)",
     should_update_state_on_success |-> FALSE, oracle |-> "not_called", calls |-> calls]

\* lines 249, 270-273 and 292-306: no oracle, or the oracle raised; intended_action
\* keeps its default
FailSafeDecision_Disable(why, oracle, calls) ==
    [intended_action |-> "DISABLE", reason |-> why,
     should_update_state_on_success |-> FALSE, oracle |-> oracle, calls |-> calls]

FailSafeDecision(why, oracle, calls) ==
    [intended_action |-> "ENABLE", reason |-> why,
     should_update_state_on_success |-> FALSE, oracle |-> oracle, calls |-> calls]

\* lines 281-284: the oracle reports incomplete tasks
IncompleteDecision_Disable(calls) ==
    [intended_action |-> "DISABLE", reason |-> "incomplete tasks",
     should_update_state_on_success |-> FALSE, oracle |-> "True", calls |-> calls]

IncompleteDecision(calls) ==
    [intended_action |-> "ENABLE", reason |-> "incomplete tasks",
     should_update_state_on_success |-> FALSE, oracle |-> "True", calls |-> calls]

\* lines 285-290: the oracle reports no incomplete task
CompleteDecision_NoFlag(calls) ==
    [intended_action |-> "DISABLE", reason |-> "chores complete",
     should_update_state_on_success |-> FALSE, oracle |-> "False", calls |-> calls]

CompleteDecision(calls) ==
    [intended_action |-> "DISABLE", reason |-> "chores complete",
     should_update_state_on_success |-> TRUE, oracle |-> "False", calls |-> calls]

\* lines 253-306.  oresp is what the oracle answers if it is asked.
Decide(child_config, time_status, svc, st, oresp) ==
    LET child_name == child_config.name
        today_str == time_status.today_str
    IN
    IF ~time_status.is_after_cutoff
    THEN BeforeCutoffDecision
    ELSE IF svc.state_manager /\ check_if_done_today(st, child_name, today_str)
    THEN AlreadyDoneDecision(<<CheckCall(child_name, today_str)>>)
    ELSE
    LET seen == IF svc.state_manager THEN <<CheckCall(child_name, today_str)>> ELSE <<>>
        asked == seen \o <<OracleCall(child_config.todoist_section_id)>>
    IN
    IF ~svc.todoist
    THEN FailSafeDecision("oracle unavailable", "not_called", seen)
    ELSE IF oresp = "True"
    THEN IncompleteDecision(asked)
    ELSE IF oresp = "False"
    THEN CompleteDecision(asked)
    ELSE IF oresp = "TodoistApiError"
    THEN FailSafeDecision("fail-safe: API error", oresp, asked)
    ELSE IF oresp \in {"TodoistClientError", "ValueError"}
    THEN FailSafeDecision("fail-safe: client error", oresp, asked)
    ELSE FailSafeDecision("fail-safe: unexpected error", oresp, asked)

\* (the target is the disabled state whatever was decided)
TargetEnabledState_Never(intended_action) == FALSE

\* line 370
TargetEnabledState(intended_action) == (intended_action = "ENABLE")

\* line 327: the state is updated after the action
StateUpdateDue_Unchecked(action_successful, intended_action, should_update) ==
    intended_action = "DISABLE" /\ should_update

StateUpdateDue(action_successful, intended_action, should_update) ==
    action_successful /\ intended_action = "DISABLE" /\ should_update

\* a client whose set_rule_status answers `outcome' whatever the target and leaves
\* the firewall fw alone: the MagicMock of the unit tests (return_value / side_effect)
MockOutcomes ==
    {"True", "False", "SophosRuleNotFoundError", "SophosApiError",
     "SophosConnectionError", "Exception"}

MockSophos(outcome, fw) ==
    [fw |-> fw,
     set_rule_status |->
        [t \in BOOLEAN |-> [outcome |-> outcome, rules |-> fw, submitted |-> FALSE]]]

\* the SophosClient bound to the firewall fw, with the fault its next call meets
SophosClient(fw, rule_name, fault) ==
    [fw |-> fw,
     set_rule_status |-> [t \in BOOLEAN |-> set_rule_status(fw, rule_name, t, fault)]]

\* (the except clauses without the last one, except Exception)
ExceptClause_NoCatchAll(outcome) ==
    CASE outcome = "SophosRuleNotFoundError" -> "SophosRuleNotFoundError"
      [] outcome \in {"SophosApiError", "SophosConnectionError"} -> "SophosApiError, SophosConnectionError"
      [] OTHER -> "none"

\* lines 390-403: the except clause that takes an exception out of set_rule_status
ExceptClause(outcome) ==
    CASE outcome = "SophosRuleNotFoundError" -> "SophosRuleNotFoundError"
      [] outcome \in {"SophosApiError", "SophosConnectionError"} -> "SophosApiError, SophosConnectionError"
      [] OTHER -> "Exception"

\* [ret, raised, rules, outcome, calls]: the boolean returned (raised: an exception
\* came out instead), the firewall afterwards, what set_rule_status did, and the
\* call made.  sophos_client is whether the client is not None, actuator the
\* client: the firewall it is bound to and what its set_rule_status does for
\* either target.
\* (a second set_rule_status call after one that did not succeed)
apply_firewall_action_Retries(sophos_client, actuator, rule_name, intended_action) ==
    IF ~sophos_client
    THEN [ret |-> FALSE, raised |-> FALSE, rules |-> actuator.fw,
          outcome |-> "not_called", calls |-> <<>>]
    ELSE
    LET target_enabled_state == TargetEnabledState(intended_action)
        r == actuator.set_rule_status[target_enabled_state]
        once == <<SetCall(rule_name, target_enabled_state)>>
    IN  [ret |-> r.outcome = "True",
         raised |-> FALSE,
         rules |-> r.rules,
         outcome |-> r.outcome,
         calls |-> IF r.outcome = "True" THEN once ELSE once \o once]

apply_firewall_action(sophos_client, actuator, rule_name, intended_action) ==
    IF ~sophos_client
    THEN [ret |-> FALSE, raised |-> FALSE, rules |-> actuator.fw,
          outcome |-> "not_called", calls |-> <<>>]
    ELSE
    LET target_enabled_state == TargetEnabledState(intended_action)
        r == actuator.set_rule_status[target_enabled_state]
    IN  [ret |-> CASE r.outcome = "True" -> TRUE
                   [] r.outcome = "False" -> FALSE
                   [] r.outcome = "SophosRuleNotFoundError" -> FALSE
                   [] r.outcome \in {"SophosApiError", "SophosConnectionError"} -> FALSE
                   [] OTHER -> FALSE,
         raised |-> /\ r.outcome \notin {"True", "False"}
                    /\ ExceptClause(r.outcome) = "none",
         rules |-> r.rules,
         outcome |-> r.outcome,
         calls |-> <<SetCall(rule_name, target_enabled_state)>>]

\* (an early return that enables the rule on its way out)
Skipped_FailSafe(st, fw, why) ==
    [skipped |-> TRUE, intended_action |-> "ENABLE", reason |-> why,
     should_update_state_on_success |-> FALSE, oracle |-> "not_called",
     outcome |-> "True", action_successful |-> TRUE, action_raised |-> FALSE,
     calls |-> <<SetCall("", TRUE)>>, state |-> st, rules |-> fw]

\* the result of a process_child invocation that returned early
Skipped(st, fw, why) ==
    [skipped |-> TRUE, intended_action |-> "N/A", reason |-> why,
     should_update_state_on_success |-> FALSE, oracle |-> "not_called",
     outcome |-> "not_called", action_successful |-> FALSE, action_raised |-> FALSE,
     calls |-> <<>>, state |-> st, rules |-> fw]

\* process_child on the store st; oresp is what the oracle does if it is asked,
\* actuator the set_rule_status of the sophos client
process_child(child_config, time_status, svc, st, oresp, actuator) ==
    LET child_name == child_config.name
        section_id == child_config.todoist_section_id
        rule_name == child_config.sophos_rule_name
        today_str == time_status.today_str
    IN
    IF section_id = "" \/ rule_name = ""
    THEN Skipped(st, actuator.fw, "missing configuration")
    ELSE IF ~svc.sophos
    THEN Skipped(st, actuator.fw, "no sophos client")
    ELSE
    LET d == Decide(child_config, time_status, svc, st, oresp)
        a == apply_firewall_action(svc.sophos, actuator, rule_name, d.intended_action)
        marks == /\ StateUpdateDue(a.ret, d.intended_action,
                                    d.should_update_state_on_success)
                 /\ svc.state_manager
    IN  [skipped |-> FALSE,
         intended_action |-> d.intended_action,
         reason |-> d.reason,
         should_update_state_on_success |-> d.should_update_state_on_success,
         oracle |-> d.oracle,
         outcome |-> a.outcome,
         action_successful |-> a.ret,
         action_raised |-> a.raised,
         calls |-> d.calls \o a.calls
                     \o (IF marks THEN <<MarkCall(child_name, today_str)>> ELSE <<>>),
         state |-> IF marks THEN mark_done_today(st, child_name, today_str) ELSE st,
         rules |-> a.rules]

----------------------------------------------------------------------------
(* Direct invocations of process_child, as the unit tests make them: the       *)
(* services are MagicMocks (or None), the clock is any hour of one day, and    *)
(* the store holds any dates up to that day.                                   *)

NoCall == [kind |-> "none"]

\* the record kept of one invocation: its arguments, the store before it, its result
CallRecord(child_config, time_status, svc, st, res) ==
    [kind |-> "call", cfg |-> child_config, ts |-> time_status, svc |-> svc,
     before |-> st, res |-> res]

\* the services dicts: any of the three clients may be None (without the sophos
\* client process_child returns at once, whatever the other two are)
ServiceSets ==
    [todoist : BOOLEAN, sophos : {TRUE}, state_manager : BOOLEAN]
    \cup {[todoist |-> TRUE, sophos |-> FALSE, state_manager |-> TRUE]}

Firewalls == [RuleNames -> {"enable", "disable"}]

AllEnabled == [r \in RuleNames |-> "enable"]

\* the answers worth drawing for the oracle and the actuator mock: one when the
\* invocation does not call it, every outcome when it does
OracleDraws(child_config, time_status, svc, st) ==
    IF process_child(child_config, time_status, svc, st, "True",
                     MockSophos("True", AllEnabled)).oracle = "not_called"
    THEN {"True"} ELSE OracleOutcomes

ActuatorDraws(child_config, time_status, svc, st) ==
    IF process_child(child_config, time_status, svc, st, "True",
                     MockSophos("True", AllEnabled)).outcome = "not_called"
    THEN {"True"} ELSE MockOutcomes

InitChild ==
    /\ pc = "unit"
    /\ idx = 0
    /\ services \in ServiceSets
    /\ now = [day |-> MaxDay, hour |-> 0]
    /\ state \in Stores
    /\ services.state_manager \/ state = EmptyStore
    /\ file = MissingFile
    /\ rules = AllEnabled
    /\ last = NoCall
    /\ prev = NoCall
    /\ loaded = "none"
    /\ saved = EmptyStore
    /\ log = <<>>

\* main.process_child(child_config, time_status, services): the first invocation at
\* this reading of the clock, or the latest one made again with the same child_config
CallProcessChild ==
    /\ pc = "unit"
    /\ \E child_config \in {c \in ChildConfigs : last.kind = "call" => last.cfg = c} :
       \E oresp \in OracleDraws(child_config, get_time_status(now), services, state),
          outcome \in ActuatorDraws(child_config, get_time_status(now), services, state) :
         LET time_status == get_time_status(now)
             res == process_child(child_config, time_status, services, state, oresp,
                                  MockSophos(outcome, rules))
             rec == CallRecord(child_config, time_status, services, state, res)
         IN  /\ state' = res.state
             /\ last' = rec
             /\ prev' = IF /\ last.kind = "call"
                           /\ last.cfg = child_config
                           /\ last.ts = time_status
                           /\ Len(last.res.calls) > 0
                           /\ last.res.calls[Len(last.res.calls)].op = "mark_done_today"
                        THEN last ELSE NoCall
    /\ UNCHANGED <<pc, idx, services, now, file, rules, loaded, saved, log>>

\* the wall clock moves on by an hour, within the day
AdvanceHour ==
    /\ pc = "unit"
    /\ now.hour < 23
    /\ now' = [now EXCEPT !.hour = now.hour + 1]
    /\ last' = NoCall
    /\ prev' = NoCall
    /\ UNCHANGED <<pc, idx, services, state, file, rules, loaded, saved, log>>

NextChild == CallProcessChild \/ AdvanceHour

SpecChild == InitChild /\ [][NextChild]_vars

----------------------------------------------------------------------------
(* main.run_chore_check: one process per scheduled trigger.  Between runs     *)
(* nothing of the process is left: the store is rebuilt from the file.         *)

NoServices == [todoist |-> FALSE, sophos |-> FALSE, state_manager |-> FALSE]

Init ==
    /\ pc = "idle"
    /\ idx = 0
    /\ services = NoServices
    /\ now = [day |-> 1, hour |-> 0]
    /\ state = EmptyStore
    /\ file = MissingFile
    /\ rules = AllEnabled
    /\ last = NoCall
    /\ prev = NoCall
    /\ loaded = "none"
    /\ saved = EmptyStore
    /\ log = <<>>

Stopped == pc \in {"idle", "done", "aborted", "config_error", "crashed"}

\* lines 421-434: the critical service checks.  The line that would make the
\* todoist client critical (426) is commented out.
\* (that line in force)
critical_services_ok_TodoistEssential(svc) ==
    svc.todoist /\ svc.sophos /\ svc.state_manager

\* (the state manager not critical)
critical_services_ok_SophosOnly(svc) == svc.sophos

critical_services_ok(svc) == svc.sophos /\ svc.state_manager

\* lines 16-23, then 416-445: a process starts.  "import config" may raise
\* (config.py raises ValueError for a bad CUTOFF_HOUR or a missing variable) and
\* the process exits at once; otherwise initialize_services (with load_state),
\* the critical service checks and get_time_status.  Each client may fail to
\* construct; an aborted run keeps the services dict it got.
StartRun ==
    /\ Stopped
    /\ \/ /\ pc' = "config_error"
          /\ idx' = 0
          /\ services' = NoServices
          /\ state' = EmptyStore
          /\ loaded' = "none"
          /\ log' = <<>>
       \/ \E svc \in [todoist : BOOLEAN, sophos : BOOLEAN, state_manager : BOOLEAN],
          fault \in LoadFaults :
         LET l == load_state(file, fault)
         IN
         /\ services' = svc
         /\ IF critical_services_ok(svc)
            THEN /\ pc' = "children"
                 /\ idx' = 1
                 /\ state' = l.state
                 /\ loaded' = l.how
            ELSE /\ pc' = "aborted"
                 /\ idx' = 0
                 /\ state' = EmptyStore
                 /\ loaded' = "none"
         /\ log' = IF svc.state_manager THEN <<[op |-> "load_state"]>> ELSE <<>>
    /\ last' = NoCall
    /\ UNCHANGED <<now, file, rules, prev, saved>>

\* Where an exception that process_child does not handle itself can come from:
\* its first lines (a key missing from a dict), check_if_done_today (line 262)
\* or mark_done_today (line 331).  Everything else it calls is wrapped in a try.
CrashPoints == {"none", "entry", "check_if_done_today", "mark_done_today"}

\* [res, raised]: process_child with an exception raised at the crash point, if the
\* invocation gets there.  What was done before the exception stays done.
process_child_raising(child_config, time_status, svc, st, oresp, actuator, crash) ==
    LET r == process_child(child_config, time_status, svc, st, oresp, actuator)
        checks == /\ ~r.skipped /\ Len(r.calls) > 0
                  /\ r.calls[1].op = "check_if_done_today"
        marks == /\ ~r.skipped /\ Len(r.calls) > 0
                 /\ r.calls[Len(r.calls)].op = "mark_done_today"
    IN  IF crash = "entry"
        THEN [res |-> Skipped(st, actuator.fw, "raised"), raised |-> TRUE]
        ELSE IF crash = "check_if_done_today" /\ checks
        THEN [res |-> [Skipped(st, actuator.fw, "raised") EXCEPT !.calls = <<r.calls[1]>>],
              raised |-> TRUE]
        ELSE IF crash = "mark_done_today" /\ marks
        THEN [res |-> [r EXCEPT !.state = st], raised |-> TRUE]
        ELSE [res |-> r, raised |-> FALSE]

\* the record of an invocation made by the loop
RunRecord(child_config, time_status, svc, st, x) ==
    [kind |-> "call", cfg |-> child_config, ts |-> time_status, svc |-> svc,
     before |-> st, res |-> x.res, raised |-> x.raised]

\* every way the invocation can go: what the oracle answers, the fault the
\* firewall call meets, and the exception that may come out
RunOutcomes(child_config, time_status, svc, st, fw) ==
    { process_child_raising(child_config, time_status, svc, st, oresp,
                            SophosClient(fw, child_config.sophos_rule_name, fault), crash) :
        oresp \in OracleDraws(child_config, time_status, svc, st),
        fault \in SophosFaults, crash \in CrashPoints }

\* lines 450-456: the try around process_child; its except Exception logs the
\* exception and the loop goes on
Caught_Nothing(raised) == ~raised

Caught(raised) == TRUE

\* the for loop is at its last child
LastChild_First(i) == TRUE

LastChild(i) == i = Len(CHILDREN_CONFIG)

\* lines 449-456: process_child for the next child of the roster, an exception
\* out of it caught and logged
RunChild ==
    /\ pc = "children"
    /\ LET child_config == CHILDREN_CONFIG[idx]
           time_status == get_time_status(now)
       IN  \E x \in RunOutcomes(child_config, time_status, services, state, rules) :
                 /\ state' = x.res.state
                 /\ rules' = x.res.rules
                 /\ last' = RunRecord(child_config, time_status, services, state, x)
                 /\ log' = Append(log, [op |-> "process_child", name |-> child_config.name,
                                        raised |-> x.raised,
                                        marked |-> x.res.state # state])
                 /\ IF ~Caught(x.raised)
                    THEN idx' = 0 /\ pc' = "crashed"
                    ELSE IF LastChild(idx)
                    THEN idx' = 0 /\ pc' = "save"
                    ELSE idx' = idx + 1 /\ pc' = pc
    /\ UNCHANGED <<services, now, file, prev, loaded, saved>>

\* the children that mark_done_today marked in the current run
MarkedInRun ==
    { Lower(log[i].name) :
        i \in { j \in DOMAIN log : log[j].op = "process_child" /\ log[j].marked } }

\* lines 459-471: save_state, its failure caught; the process ends.  prev keeps,
\* for the next run, the marks that a failed save_state left unsaved.
SaveState ==
    /\ pc = "save"
    /\ \E fault \in SaveFaults :
         LET w == save_state(file, state, fault)
         IN  /\ file' = w.file
             /\ saved' = IF w.raised THEN saved ELSE state
             /\ log' = Append(log, [op |-> "save_state", raised |-> w.raised])
             /\ prev' = IF w.raised /\ MarkedInRun # {}
                        THEN [kind |-> "save_failed", day |-> now.day,
                              marked |-> MarkedInRun]
                        ELSE NoCall
    /\ pc' = "done"
    /\ services' = NoServices
    /\ state' = EmptyStore
    /\ last' = NoCall
    /\ loaded' = "none"
    /\ UNCHANGED <<idx, now, rules>>

\* The hours at which the scheduler starts runs.  run_chore_check reads the hour
\* only through current_hour >= cutoff_hour, so the first and last hour of the day
\* and the two hours around the cutoff stand for all of them.
RunHours == {0, CUTOFF_HOUR - 1, CUTOFF_HOUR, 23}

LaterHours(hour) == {h \in RunHours : h > hour}

Earliest(hours) == CHOOSE h \in hours : \A g \in hours : h <= g

\* the wall clock moves on between two runs, to the next hour of the schedule
\* (prev, the record of marks left unsaved today, ends with the day)
Tick ==
    /\ Stopped
    /\ \/ /\ LaterHours(now.hour) # {}
          /\ now' = [now EXCEPT !.hour = Earliest(LaterHours(now.hour))]
          /\ prev' = prev
       \/ /\ LaterHours(now.hour) = {}
          /\ now.day < MaxDay
          /\ now' = [day |-> now.day + 1, hour |-> Earliest(RunHours)]
          /\ prev' = NoCall
    /\ UNCHANGED <<pc, idx, services, state, file, rules, last, loaded, saved, log>>

\* The exit status of the process that has ended.  sys.exit(1) at the failed
\* import of config (lines 16-23) and in the except of __main__, for an exception
\* that came out of run_chore_check (lines 484-493); a run_chore_check that
\* returns, at its end or at one of its early returns, leaves the status at 0.
exit_status ==
    IF pc \in {"config_error", "crashed"} THEN 1
    ELSE IF pc \in {"done", "aborted"} THEN 0
    ELSE -1

Next == StartRun \/ RunChild \/ SaveState \/ Tick

Spec == Init /\ [][Next]_vars

----------------------------------------------------------------------------
(* The StateManager on its own: one state file path, StateManager objects made  *)
(* for it, and the calls of their methods in any order.  The file starts as     *)
(* anything a file can hold, a JSON object with empty date strings included.    *)

\* the names handed to check_if_done_today / mark_done_today ("" is the empty name)
NameArgs == {"Daniel", "DANIEL", "daniel", "Sophie", ""}

\* the date strings handed to them (0 is the empty string)
DateArgs == 0..MaxDay

\* the objects a state file can hold at the start
FileStores == UNION { [K -> DateArgs] : K \in SUBSET Keys }

StoreFiles ==
    {MissingFile, CorruptFile, NonObjectFile} \cup {JsonFile(st) : st \in FileStores}

InitStore ==
    /\ pc = "store"
    /\ idx = 0
    /\ services = NoServices
    /\ now = [day |-> 1, hour |-> 0]
    /\ state = EmptyStore
    /\ file \in StoreFiles
    /\ rules = AllEnabled
    /\ last = [kind |-> "new"]
    /\ prev = NoCall
    /\ loaded = "none"
    /\ saved = EmptyStore
    /\ log = <<>>

\* StateManager(path): a fresh object for the same path; prev keeps the map of the
\* old object when its latest call was a save_state that succeeded
NewStateManager ==
    /\ pc = "store"
    /\ state' = EmptyStore
    /\ last' = [kind |-> "new"]
    /\ prev' = IF last.kind = "save" /\ ~last.raised
               THEN [kind |-> "saved", state |-> state] ELSE NoCall
    /\ UNCHANGED <<pc, idx, services, now, file, rules, loaded, saved, log>>

\* load_state; prev is kept when the object is fresh
LoadState ==
    /\ pc = "store"
    /\ \E fault \in LoadFaults :
         LET l == load_state(file, fault)
         IN  /\ state' = l.state
             /\ last' = [kind |-> "load", before |-> state, how |-> l.how,
                         raised |-> l.raised]
    /\ prev' = IF last.kind = "new" THEN prev ELSE NoCall
    /\ UNCHANGED <<pc, idx, services, now, file, rules, loaded, saved, log>>

MarkDoneToday ==
    /\ pc = "store"
    /\ \E child_name \in NameArgs, today_str \in DateArgs :
         /\ state' = mark_done_today(state, child_name, today_str)
         /\ last' = [kind |-> "mark", name |-> child_name, date |-> today_str,
                     before |-> state]
    /\ prev' = NoCall
    /\ UNCHANGED <<pc, idx, services, now, file, rules, loaded, saved, log>>

\* check_if_done_today; prev is the mark_done_today that came just before the
\* checks, if one did
CheckIfDoneToday ==
    /\ pc = "store"
    /\ \E child_name \in NameArgs, today_str \in DateArgs :
         last' = [kind |-> "check", name |-> child_name, date |-> today_str,
                  ret |-> check_if_done_today(state, child_name, today_str)]
    /\ prev' = IF last.kind = "mark" THEN last
               ELSE IF last.kind = "check" THEN prev ELSE NoCall
    /\ UNCHANGED <<pc, idx, services, now, state, file, rules, loaded, saved, log>>

SaveStateCall ==
    /\ pc = "store"
    /\ \E fault \in SaveFaults :
         LET w == save_state(file, state, fault)
         IN  /\ file' = w.file
             /\ last' = [kind |-> "save", before |-> file, fault |-> fault,
                         raised |-> w.raised]
    /\ prev' = NoCall
    /\ UNCHANGED <<pc, idx, services, now, state, rules, loaded, saved, log>>

NextStore ==
    NewStateManager \/ LoadState \/ MarkDoneToday \/ CheckIfDoneToday \/ SaveStateCall

SpecStore == InitStore /\ [][NextStore]_vars

----------------------------------------------------------------------------
(* Reading the record of an invocation *)

\* the invocation got past the two early returns (complete config, sophos client)
Decided == last.kind = "call" /\ ~last.res.skipped

\* the targets of the set_rule_status calls of the latest invocation
Targets ==
    { last.res.calls[i].target_enabled_state :
        i \in { j \in DOMAIN last.res.calls : last.res.calls[j].op = "set_rule_status" } }

NumCalls(rec, op) == Cardinality({ i \in DOMAIN rec.res.calls : rec.res.calls[i].op = op })

\* the store held today's date for the child when the invocation began
MarkedBefore ==
    /\ Lower(last.cfg.name) \in DOMAIN last.before
    /\ last.before[Lower(last.cfg.name)] = last.ts.today_str

\* the store holds today's date for the child after the invocation
MarkedAfter ==
    /\ Lower(last.cfg.name) \in DOMAIN last.res.state
    /\ last.res.state[Lower(last.cfg.name)] = last.ts.today_str

OracleErrors == {"TodoistApiError", "TodoistClientError", "ValueError", "Exception"}

\* the bedtime window of tests/test_time_logic.py: 00:00-06:59 and 20:00-23:59
InBedtime(hour) == hour < 7 \/ hour >= 20

----------------------------------------------------------------------------
(* Claims about one invocation of process_child (SpecChild) *)

\* C1: fail-safe.  On/after the cutoff, with the child not marked done today,
\* when the oracle is None or are_child_tasks_incomplete raises (API error, client
\* error, ValueError, any other exception), set_rule_status is called with
\* target_enabled_state=True and mark_done_today is not called.
C1_FailSafeEnable ==
    ( /\ Decided
      /\ last.ts.is_after_cutoff
      /\ ~(last.svc.state_manager /\ MarkedBefore)
      /\ (~last.svc.todoist \/ last.res.oracle \in OracleErrors) )
    => /\ Targets = {TRUE}
       /\ NumCalls(last, "set_rule_status") = 1
       /\ NumCalls(last, "mark_done_today") = 0
       /\ last.res.state = last.before

C1_Witness_OracleNone ==
    /\ Decided /\ last.ts.is_after_cutoff /\ ~MarkedBefore
    /\ ~last.svc.todoist /\ Targets = {TRUE}

C1_Witness_OracleRaises ==
    /\ Decided /\ last.ts.is_after_cutoff /\ ~MarkedBefore
    /\ last.res.oracle = "ValueError" /\ Targets = {TRUE}
    /\ last.res.action_successful

C1_Witness == C1_Witness_OracleRaises

\* C2: for a child with auto_disable=true, at every hour strictly before the
\* cutoff hour and outside the bedtime window, set_rule_status is called with
\* target_enabled_state=False and never with True.
C2_BeforeCutoffDisable ==
    ( /\ Decided
      /\ last.cfg.auto_disable
      /\ last.ts.current_hour < last.ts.cutoff_hour
      /\ ~InBedtime(last.ts.current_hour) )
    => /\ Targets = {FALSE}
       /\ NumCalls(last, "set_rule_status") = 1

C2_Witness ==
    /\ Decided /\ last.cfg.auto_disable /\ last.ts.current_hour = 9
    /\ Targets = {FALSE}

\* C3: bedtime has absolute priority.  At every hour of the bedtime window
\* set_rule_status is called with target_enabled_state=True, whatever the cutoff,
\* the store, the oracle and auto_disable say.
C3_BedtimeEnables ==
    (Decided /\ InBedtime(last.ts.current_hour)) => Targets = {TRUE}

\* C4: for a child with auto_disable=false, when the computed action is DISABLE
\* (before cutoff, done today by the state, or chores complete) there is no
\* set_rule_status call and no state update.
C4_AutoDisableSuppressed ==
    ( /\ Decided
      /\ ~last.cfg.auto_disable
      /\ last.res.intended_action = "DISABLE" )
    => /\ NumCalls(last, "set_rule_status") = 0
       /\ NumCalls(last, "mark_done_today") = 0
       /\ last.res.state = last.before

\* C5: auto_disable=false never suppresses an ENABLE.  For such a child, on/after
\* the cutoff, not marked done, with the oracle reporting incomplete tasks,
\* set_rule_status is called with target_enabled_state=True.
C5_EnableNotSuppressed ==
    ( /\ Decided
      /\ ~last.cfg.auto_disable
      /\ last.ts.is_after_cutoff
      /\ ~(last.svc.state_manager /\ MarkedBefore)
      /\ last.res.oracle = "True" )
    => /\ Targets = {TRUE}
       /\ NumCalls(last, "set_rule_status") = 1

C5_Witness ==
    /\ Decided /\ ~last.cfg.auto_disable /\ last.ts.is_after_cutoff
    /\ ~MarkedBefore /\ last.res.oracle = "True" /\ Targets = {TRUE}

\* C6: mark_done_today is called only when the set_rule_status call reported
\* success, the target was DISABLE, and the DISABLE was decided because the
\* oracle reported no incomplete task in this invocation.  Every other invocation
\* (a DISABLE before the cutoff or by the state, any ENABLE, any failed actuator
\* call) leaves the store unchanged.
C6_MarkOnlyOnChoresComplete ==
    last.kind = "call" =>
        LET earned == /\ last.res.action_successful
                      /\ Targets = {FALSE}
                      /\ last.res.oracle = "False"
        IN  /\ NumCalls(last, "mark_done_today") > 0 => earned
            /\ ~earned => last.res.state = last.before
            /\ state = last.res.state

C6_Witness_Marked ==
    /\ Decided /\ NumCalls(last, "mark_done_today") = 1
    /\ last.res.state # last.before

C6_Witness_FailedActuator ==
    /\ Decided /\ last.res.oracle = "False" /\ ~last.res.action_successful
    /\ Targets = {FALSE} /\ last.res.state = last.before

C6_Witness == C6_Witness_Marked

C7_Witness_Complete ==
    /\ Decided /\ last.ts.is_after_cutoff /\ last.svc.state_manager /\ ~MarkedBefore
    /\ last.res.oracle = "False" /\ last.res.action_successful
    /\ Targets = {FALSE} /\ MarkedAfter

C7_Witness_Incomplete ==
    /\ Decided /\ last.ts.is_after_cutoff /\ last.svc.state_manager /\ ~MarkedBefore
    /\ last.res.oracle = "True" /\ Targets = {TRUE}

----------------------------------------------------------------------------
(* C9: runs of run_chore_check that follow one another (Spec).  The state file  *)
(* starts absent, so a date in saved was written by a run of this behaviour:    *)
(* process_child marked the child (chores complete, DISABLE succeeded) and the  *)
(* save_state of that run succeeded, or a later run loaded and re-saved it.     *)

\* an earlier run saved today's date for the child of the latest invocation
SavedToday ==
    /\ last.kind = "call"
    /\ Lower(last.cfg.name) \in DOMAIN saved
    /\ saved[Lower(last.cfg.name)] = last.ts.today_str

C9_Witness_NextDay ==
    /\ Decided /\ loaded = "ok"
    /\ Lower(last.cfg.name) \in DOMAIN saved
    /\ saved[Lower(last.cfg.name)] < last.ts.today_str
    /\ Targets = {TRUE}

\* the saved date is lost to a read error
C9_Witness_ReadError ==
    /\ Decided /\ SavedToday /\ loaded = "io_error" /\ Targets = {TRUE}

\* the saved date is lost to a save_state that failed after truncating the file
C9_Witness_Truncated ==
    /\ Decided /\ SavedToday /\ loaded = "corrupt" /\ Targets = {TRUE}

----------------------------------------------------------------------------
(* C10: two invocations in immediate succession (SpecChild).  prev is the first  *)
(* of them: it had the same child_config and time_status as last, the services  *)
(* are those of the whole behaviour, and it called mark_done_today.              *)

\* the keys of the store that belong to the child of the latest invocation
EntriesOfChild == { k \in DOMAIN state : Lower(k) = Lower(last.cfg.name) }

\* the first call: the oracle reports chores complete and the actuator succeeds
FirstCallMarks(storeNeeded) ==
    ( /\ Decided
      /\ last.res.oracle = "False"
      /\ last.res.action_successful
      /\ storeNeeded => last.svc.state_manager )
    => /\ Targets = {FALSE}
       /\ MarkedAfter

\* the second call, with the same arguments and a succeeding actuator
SecondCallSame ==
    ( /\ prev.kind = "call"
      /\ Decided
      /\ last.res.action_successful )
    => /\ Targets = {FALSE}
       /\ Cardinality(EntriesOfChild) = 1
       /\ \A k \in EntriesOfChild : state[k] = last.ts.today_str
       /\ state = prev.res.state

----------------------------------------------------------------------------
(* C11: the cutoff boundary (SpecChild) *)

\* C11: is_after_cutoff is true exactly when current_hour >= cutoff_hour.  At
\* current_hour = cutoff_hour an invocation whose oracle reports incomplete tasks
\* calls set_rule_status(True); at cutoff_hour - 1 every invocation calls
\* set_rule_status(False) without asking store or oracle.
C11_CutoffInclusive ==
    last.kind = "call" =>
      /\ last.ts.is_after_cutoff <=> (last.ts.current_hour >= last.ts.cutoff_hour)
      /\ last.ts.current_hour = now.hour /\ last.ts.cutoff_hour = CUTOFF_HOUR
      /\ (Decided /\ last.ts.current_hour = last.ts.cutoff_hour /\ last.res.oracle = "True")
            => Targets = {TRUE}
      /\ (Decided /\ last.ts.current_hour = last.ts.cutoff_hour - 1)
            => /\ Targets = {FALSE}
               /\ last.res.reason = "before cutoff"
               /\ Len(last.res.calls) = 1

C11_Witness_AtCutoff ==
    /\ Decided /\ last.ts.current_hour = CUTOFF_HOUR /\ last.ts.is_after_cutoff
    /\ last.res.oracle = "True" /\ Targets = {TRUE}

C11_Witness_HourBefore ==
    /\ Decided /\ last.ts.current_hour = CUTOFF_HOUR - 1 /\ ~last.ts.is_after_cutoff
    /\ last.svc.todoist /\ Targets = {FALSE}

C11_Witness == C11_Witness_AtCutoff

----------------------------------------------------------------------------
(* Claims about the StateManager (SpecStore) *)

\* the value stored under the lowercased name equals the date string
StoredEquals(st, child_name, today_str) ==
    Lower(child_name) \in DOMAIN st /\ st[Lower(child_name)] = today_str

\* the latest call is a check_if_done_today that follows a mark_done_today of the
\* same name in some letter case, with only checks in between
CheckAfterMark ==
    /\ last.kind = "check" /\ prev.kind = "mark"
    /\ Lower(last.name) = Lower(prev.name)

\* C12 as stated: check_if_done_today(key, dateStr) is true iff the value stored
\* under the lowercased key equals dateStr, for every key and every dateStr;
\* after mark_done_today(X, d) it is true for (X, d) in any letter case of X and
\* false for (X, d') with d' different from d.
C12_Original ==
    /\ last.kind = "check" => (last.ret <=> StoredEquals(state, last.name, last.date))
    /\ CheckAfterMark => (last.ret <=> last.date = prev.date)

\* C12 amended: the same for a non-empty key and a non-empty dateStr; with an
\* empty key or an empty dateStr check_if_done_today is false and
\* mark_done_today changes nothing.
C12_CheckIffStored ==
    /\ (last.kind = "check" /\ last.name # "" /\ last.date # 0)
          => (last.ret <=> StoredEquals(state, last.name, last.date))
    /\ (last.kind = "check" /\ (last.name = "" \/ last.date = 0)) => ~last.ret
    /\ (CheckAfterMark /\ prev.name # "" /\ prev.date # 0)
          => (last.ret <=> last.date = prev.date)
    /\ (last.kind = "mark" /\ (last.name = "" \/ last.date = 0))
          => state = last.before

\* marked under one letter case, found under another
C12_Witness_OtherCase ==
    /\ CheckAfterMark /\ prev.name = "Daniel" /\ last.name = "DANIEL"
    /\ prev.date # 0 /\ last.date = prev.date /\ last.ret

\* marked for one date, not found for another
C12_Witness_OtherDate ==
    /\ CheckAfterMark /\ prev.name # "" /\ prev.date # 0
    /\ last.date # 0 /\ last.date # prev.date /\ ~last.ret

\* the stored value is the empty string, and so is the date asked for
C12_Witness_EmptyDate ==
    /\ last.kind = "check" /\ last.date = 0 /\ last.name # ""
    /\ StoredEquals(state, last.name, last.date) /\ ~last.ret

C12_Witness == C12_Witness_OtherCase

\* the latest call is the load_state of a fresh StateManager, made for the path
\* right after a save_state of another object succeeded
LoadAfterSave == last.kind = "load" /\ prev.kind = "saved"

\* C13: after a successful save_state, load_state on a fresh StateManager with the
\* same path, reading the file without an I/O error, yields a map equal to the one
\* before the save (for every map: those built by mark_done_today calls, and
\* those loaded from a file).
C13_RoundTrip ==
    (LoadAfterSave /\ last.how # "io_error")
    => /\ last.how = "ok"
       /\ state = prev.state
       /\ file = JsonFile(prev.state)

\* a map with both children marked, on different dates, comes back
C13_Witness ==
    /\ LoadAfterSave /\ last.how = "ok"
    /\ DOMAIN prev.state = Keys
    /\ prev.state \in Stores
    /\ prev.state["daniel"] # prev.state["sophie"]
    /\ state = prev.state

\* C14: load_state never raises.  When the file is absent, is no JSON, is JSON
\* but no object, or the read meets an I/O error, the in-memory map becomes the
\* empty map whatever it held before; otherwise it becomes the object of the file.
C14_LoadNeverRaises ==
    last.kind = "load" =>
      /\ ~last.raised
      /\ last.how \in {"missing", "corrupt", "not_object", "io_error", "ok"}
      /\ last.how = "missing" <=> file.kind = "missing"
      /\ last.how = "corrupt" => file.kind = "corrupt"
      /\ last.how = "not_object" => file.kind = "not_object"
      /\ last.how # "ok" => state = EmptyStore
      /\ last.how = "ok" => (file.kind = "json" /\ state = json_load(file.data))

\* a map with content is discarded by a load that fails
LoadDiscards(how) ==
    /\ last.kind = "load" /\ last.how = how /\ ~last.raised
    /\ last.before # EmptyStore /\ state = EmptyStore

C14_Witness_Missing == LoadDiscards("missing")
C14_Witness_Corrupt == LoadDiscards("corrupt")
C14_Witness_NotObject == LoadDiscards("not_object")
C14_Witness_IoError == LoadDiscards("io_error") /\ file.kind = "json" /\ file.data # <<>>

C14_Witness == C14_Witness_IoError

\* C15: after any save_state attempt, one that fails part-way through writing
\* included, the state file holds either the complete previous content or the
\* complete new content.
C15_AllOrNothing ==
    last.kind = "save" =>
      \/ file = last.before
      \/ file = JsonFile(state)

\* what the code does instead: a save_state that fails after open(path, 'w')
\* leaves a file that is neither, and it raises StateFileError
C15_Truncated ==
    /\ last.kind = "save" /\ last.raised /\ last.fault = "write_failed"
    /\ last.before.kind = "json" /\ last.before.data # <<>>
    /\ state # EmptyStore
    /\ file = CorruptFile

----------------------------------------------------------------------------
(* Claims about one run of run_chore_check (Spec) *)

RosterSize == Len(CHILDREN_CONFIG)

\* the log of a run that got through: load_state, process_child for every child of
\* the roster in order, then save_state
CompleteLog ==
    /\ Len(log) = RosterSize + 2
    /\ log[1].op = "load_state"
    /\ \A i \in 1..RosterSize :
          /\ log[i + 1].op = "process_child"
          /\ log[i + 1].name = CHILDREN_CONFIG[i].name
    /\ log[RosterSize + 2].op = "save_state"

\* while the children are processed: load_state, then the children so far
LogWhileRunning ==
    /\ pc = "children" => Len(log) = idx
    /\ pc = "save" => Len(log) = RosterSize + 1
    /\ pc \in {"children", "save"} =>
          /\ log[1].op = "load_state"
          /\ \A i \in 2..Len(log) :
                /\ log[i].op = "process_child"
                /\ log[i].name = CHILDREN_CONFIG[i - 1].name

\* the state file changes in no step that processes a child, and in no step but
\* the save_state at the end of a run
FileStep ==
    /\ pc = "children" => file' = file
    /\ file' # file => (pc = "save" /\ pc' = "done")

\* C16: within one run the store is modified only in memory while the children
\* are processed, and save_state is called exactly once, after every child of the
\* roster has been processed.
C16_SaveOnceAtEnd ==
    /\ [](LogWhileRunning /\ (pc = "done" => CompleteLog))
    /\ [][FileStep]_vars

\* a child is marked in memory while the file still lacks it
C16_Witness_InMemory ==
    /\ pc = "save" /\ state # EmptyStore /\ file = MissingFile

\* the run is over and the one save_state wrote the marks
C16_Witness ==
    /\ pc = "done" /\ CompleteLog /\ ~log[RosterSize + 2].raised
    /\ saved # EmptyStore /\ file = JsonFile(saved)

----------------------------------------------------------------------------
(* C17: a run whose save_state failed, and the next run of that day (Spec).     *)
(* prev is the record of the failed save: the day, and the children marked in   *)
(* that run.                                                                    *)

\* the latest invocation is for a child that the run before marked and could not save
UnsavedChild ==
    /\ Decided
    /\ prev.kind = "save_failed"
    /\ Lower(last.cfg.name) \in prev.marked

\* the run whose save_state raised finished normally
FinishedDespiteSave ==
    (pc = "done" /\ log[Len(log)].raised) =>
        /\ CompleteLog
        /\ prev.kind = "save_failed" => prev.marked = MarkedInRun

\* save_state, failing or not, leaves the firewall as the run made it
SaveKeepsRules == pc = "save" => rules' = rules

\* C17 as stated: the failure is caught and the run finishes normally, the
\* actuator calls made are not undone, and the next run does not see the child as
\* done today and asks the oracle about it.
C17_Original ==
    /\ FinishedDespiteSave
    /\ UnsavedChild => (~MarkedBefore /\ last.res.oracle \in OracleOutcomes)

\* C17 amended: the failure is caught and the run finishes normally; the actuator
\* calls made are not undone; the next run on the same day sees the child as done
\* today only if an earlier run of that day had saved it, and otherwise asks the
\* oracle when there is one and enables the rule (fail-safe) when there is none.
C17_SaveFailure ==
    /\ [](/\ FinishedDespiteSave
          /\ (UnsavedChild /\ last.ts.today_str = prev.day) =>
                /\ last.ts.is_after_cutoff
                /\ MarkedBefore => (SavedToday /\ loaded = "ok")
                /\ (~MarkedBefore /\ last.svc.todoist) => last.res.oracle \in OracleOutcomes
                /\ (~MarkedBefore /\ ~last.svc.todoist) => Targets = {TRUE})
    /\ [][SaveKeepsRules]_vars

\* after the failed save the next run of the day asks the oracle again, the rule
\* still disabled as the run before left it
C17_Witness ==
    /\ UnsavedChild /\ last.ts.today_str = prev.day /\ ~MarkedBefore
    /\ last.res.oracle = "True" /\ Targets = {TRUE}
    /\ last.cfg.name = "Daniel" /\ saved = EmptyStore

\* the next run has no oracle
C17_Witness_NoOracle ==
    /\ UnsavedChild /\ last.ts.today_str = prev.day /\ ~MarkedBefore
    /\ ~last.svc.todoist /\ Targets = {TRUE}

\* the child had been saved by an earlier run of the day, lost to a read error
\* in the run whose save failed
C17_Witness_SavedEarlier ==
    /\ UnsavedChild /\ last.ts.today_str = prev.day /\ MarkedBefore /\ SavedToday

----------------------------------------------------------------------------
(* C18: an exception out of process_child (Spec) *)

\* process_child raised for some child of the current run
SomeChildRaised ==
    \E i \in DOMAIN log : log[i].op = "process_child" /\ log[i].raised

\* C18: when process_child raises for a child, the exception is caught at the
\* loop: the run goes on with the next child of the roster, every later child is
\* processed, and save_state is called at the end of the run.  An exception
\* raised before the firewall call leaves store and firewall as they were.
C18_ChildErrorIsolated ==
    /\ SomeChildRaised =>
          /\ pc \in {"children", "save", "done"}
          /\ LogWhileRunning
          /\ pc = "done" => CompleteLog
    /\ (last.kind = "call" /\ last.raised) =>
          /\ pc = (IF last.cfg = CHILDREN_CONFIG[RosterSize] THEN "save" ELSE "children")
          /\ pc = "children" => CHILDREN_CONFIG[idx - 1] = last.cfg
          /\ state = last.before
          /\ last.res.skipped => NumCalls(last, "set_rule_status") = 0
          /\ rules = last.res.rules

\* the first child raised, the second was processed and marked, and the mark saved
C18_Witness ==
    /\ pc = "done" /\ CompleteLog
    /\ log[2].raised /\ ~log[3].raised /\ log[3].marked
    /\ ~log[RosterSize + 2].raised
    /\ "sophie" \in DOMAIN saved /\ saved["sophie"] = now.day
    /\ "daniel" \notin DOMAIN saved

\* the exception came after the firewall call: the rule is disabled, the mark not made
C18_Witness_RaisedAtMark ==
    /\ last.kind = "call" /\ last.raised /\ ~last.res.skipped
    /\ Targets = {FALSE} /\ rules[last.cfg.sophos_rule_name] = "disable"
    /\ state = last.before

----------------------------------------------------------------------------
(* C19: a firewall call that fails (Spec) *)

\* the children processed in the current run, in order
ProcessedNames ==
    LET events == SelectSeq(log, LAMBDA e : e.op = "process_child")
    IN  [i \in DOMAIN events |-> events[i].name]

\* the set_rule_status call of the latest invocation returned False or raised
ActuatorFailed ==
    /\ Decided /\ ~last.raised
    /\ NumCalls(last, "set_rule_status") = 1
    /\ last.res.outcome # "True"

\* C19: process_child calls set_rule_status at most once for a child in a run;
\* when the call returns False or raises, the store is left as it was, no
\* exception leaves process_child, and the run goes on with the next child.
C19_NoActuatorRetry ==
    /\ last.kind = "call" => NumCalls(last, "set_rule_status") <= 1
    /\ \A i, j \in DOMAIN ProcessedNames :
          ProcessedNames[i] = ProcessedNames[j] => i = j
    /\ ActuatorFailed =>
          /\ ~last.res.action_successful
          /\ NumCalls(last, "mark_done_today") = 0
          /\ state = last.before
          /\ pc = (IF last.cfg = CHILDREN_CONFIG[RosterSize] THEN "save" ELSE "children")
          /\ pc = "children" => CHILDREN_CONFIG[idx - 1] = last.cfg

\* chores complete, the DISABLE rejected by the firewall: nothing marked, the
\* second child is next
C19_Witness_ReturnsFalse ==
    /\ ActuatorFailed /\ last.res.outcome = "False" /\ last.res.oracle = "False"
    /\ Targets = {FALSE} /\ state = last.before
    /\ pc = "children" /\ idx = 2

C19_Witness_Raises ==
    /\ ActuatorFailed /\ last.res.outcome = "SophosApiError" /\ last.res.oracle = "False"
    /\ Targets = {FALSE} /\ state = last.before
    /\ pc = "children" /\ idx = 2

C19_Witness == C19_Witness_ReturnsFalse

----------------------------------------------------------------------------
(* C20: the early returns of process_child (SpecChild) *)

\* the child_config lacks the section id or the rule name, or there is no sophos
\* client
MustSkip ==
    /\ last.kind = "call"
    /\ \/ last.cfg.todoist_section_id = ""
       \/ last.cfg.sophos_rule_name = ""
       \/ ~last.svc.sophos

\* C20: without a section id, without a rule name, or without a sophos client,
\* process_child returns at once: no set_rule_status call, no
\* are_child_tasks_incomplete call, no call on the store, store and firewall
\* unchanged.  Every other invocation calls set_rule_status.
C20_SkipsEntirely ==
    /\ MustSkip =>
          /\ last.res.skipped
          /\ last.res.calls = <<>>
          /\ last.res.oracle = "not_called" /\ last.res.outcome = "not_called"
          /\ last.res.state = last.before /\ state = last.before
          /\ last.res.rules = rules
    /\ (last.kind = "call" /\ ~MustSkip) =>
          /\ ~last.res.skipped
          /\ NumCalls(last, "set_rule_status") = 1

\* on/after the cutoff, with all services but a child_config that lacks something
C20_Witness_NoSection ==
    /\ MustSkip /\ last.cfg.todoist_section_id = "" /\ last.svc.sophos
    /\ last.svc.todoist /\ last.svc.state_manager /\ last.ts.is_after_cutoff
    /\ last.res.calls = <<>>

C20_Witness_NoRule ==
    /\ MustSkip /\ last.cfg.sophos_rule_name = "" /\ last.svc.sophos
    /\ last.svc.todoist /\ last.svc.state_manager /\ last.ts.is_after_cutoff
    /\ last.res.calls = <<>>

\* a complete child_config, no sophos client, a store with content
C20_Witness_NoActuator ==
    /\ MustSkip /\ ~last.svc.sophos
    /\ last.cfg.todoist_section_id # "" /\ last.cfg.sophos_rule_name # ""
    /\ last.ts.is_after_cutoff /\ last.before # EmptyStore
    /\ last.res.calls = <<>> /\ state = last.before

C20_Witness == C20_Witness_NoActuator

----------------------------------------------------------------------------
(* C21: a client that failed to construct (Spec) *)

\* the number of events of the log with the given op
LogCount(op) == Cardinality({i \in DOMAIN log : log[i].op = op})

\* the run was given up at the critical service checks: nothing was processed
\* and nothing saved
AbortedAtInit ==
    /\ pc = "aborted"
    /\ LogCount("process_child") = 0
    /\ LogCount("save_state") = 0
    /\ last = NoCall

DegradedChild ==
    ( /\ pc \in {"children", "save"} /\ ~services.todoist
      /\ last.kind = "call" /\ ~last.raised ) =>
        /\ ~last.res.skipped
        /\ last.res.oracle = "not_called"
        /\ NumCalls(last, "are_child_tasks_incomplete") = 0
        /\ NumCalls(last, "set_rule_status") = 1
        /\ ( /\ last.ts.is_after_cutoff
             /\ ~check_if_done_today(last.before, last.cfg.name, last.ts.today_str) )
           => /\ last.res.intended_action = "ENABLE"
              /\ Targets = {TRUE}

\* a run without the todoist client goes from child to child to save_state
DegradedRunGoesOn ==
    (pc = "children" /\ ~services.todoist) =>
        /\ pc' \in {"children", "save"}
        /\ pc' = "save" => LogCount("process_child")' = RosterSize

C21_Witness_NoOracle ==
    /\ pc = "save" /\ ~services.todoist
    /\ LogCount("process_child") = RosterSize
    /\ last.kind = "call" /\ last.ts.is_after_cutoff
    /\ last.res.intended_action = "ENABLE" /\ last.res.action_successful

\* no sophos client, the other two there: the run was given up
C21_Witness_NoActuator ==
    /\ AbortedAtInit
    /\ ~services.sophos /\ services.todoist /\ services.state_manager
    /\ log = <<[op |-> "load_state"]>>

----------------------------------------------------------------------------
(* scheduled_actions.py: the pure helpers.  A string is the sequence of its    *)
(* characters here, so that parsing and key derivation work on what is         *)
(* written.                                                                     *)

DigitChars == {"0", "1", "2", "3", "4", "5", "6", "7", "8", "9"}

DigitValue(c) ==
    CASE c = "0" -> 0 [] c = "1" -> 1 [] c = "2" -> 2 [] c = "3" -> 3 [] c = "4" -> 4
      [] c = "5" -> 5 [] c = "6" -> 6 [] c = "7" -> 7 [] c = "8" -> 8 [] c = "9" -> 9

\* str.strip(): leading and trailing blanks removed
RECURSIVE Strip(_)
Strip(s) ==
    IF s = <<>> THEN s
    ELSE IF Head(s) = " " THEN Strip(Tail(s))
    ELSE IF s[Len(s)] = " " THEN Strip(SubSeq(s, 1, Len(s) - 1))
    ELSE s

\* the value of a string of decimal digits
RECURSIVE DecimalValue(_)
DecimalValue(ds) ==
    IF ds = <<>> THEN 0
    ELSE 10 * DecimalValue(SubSeq(ds, 1, Len(ds) - 1)) + DigitValue(ds[Len(ds)])

\* int(text): blanks around, an optional sign, then one digit or more;
\* [raised, value], raised standing for ValueError
int(text) ==
    LET t == Strip(text)
        signed == t # <<>> /\ Head(t) \in {"+", "-"}
        ds == IF signed THEN Tail(t) ELSE t
    IN  IF ds = <<>> \/ \E i \in DOMAIN ds : ds[i] \notin DigitChars
        THEN [raised |-> TRUE, value |-> 0]
        ELSE [raised |-> FALSE,
              value |-> IF signed /\ Head(t) = "-" THEN 0 - DecimalValue(ds)
                        ELSE DecimalValue(ds)]

\* (the parts converted, their ranges not checked)
parse_hhmm_Unchecked(time_str) ==
    IF time_str = <<>> \/ \A i \in DOMAIN time_str : time_str[i] # ":"
    THEN [raised |-> TRUE, hour |-> 0, minute |-> 0]
    ELSE
    LET colon == CHOOSE i \in DOMAIN time_str :
                     time_str[i] = ":" /\ \A j \in 1..(i - 1) : time_str[j] # ":"
        hour == int(SubSeq(time_str, 1, colon - 1))
        minute == int(SubSeq(time_str, colon + 1, Len(time_str)))
    IN  IF hour.raised \/ minute.raised
        THEN [raised |-> TRUE, hour |-> 0, minute |-> 0]
        ELSE [raised |-> FALSE, hour |-> hour.value, minute |-> minute.value]

\* _parse_hhmm(time_str): [raised, hour, minute], raised standing for ValueError.
\* split(":", 1) splits at the first colon.
parse_hhmm(time_str) ==
    IF time_str = <<>> \/ \A i \in DOMAIN time_str : time_str[i] # ":"
    THEN [raised |-> TRUE, hour |-> 0, minute |-> 0]
    ELSE
    LET colon == CHOOSE i \in DOMAIN time_str :
                     time_str[i] = ":" /\ \A j \in 1..(i - 1) : time_str[j] # ":"
        hour == int(SubSeq(time_str, 1, colon - 1))
        minute == int(SubSeq(time_str, colon + 1, Len(time_str)))
    IN  IF hour.raised \/ minute.raised
        THEN [raised |-> TRUE, hour |-> 0, minute |-> 0]
        ELSE IF hour.value < 0 \/ hour.value > 23
        THEN [raised |-> TRUE, hour |-> 0, minute |-> 0]
        ELSE IF minute.value < 0 \/ minute.value > 59
        THEN [raised |-> TRUE, hour |-> 0, minute |-> 0]
        ELSE [raised |-> FALSE, hour |-> hour.value, minute |-> minute.value]

\* str.lower() and str.isalnum() on the characters that occur in rule names
LowerChar(c) ==
    CASE c = "A" -> "a" [] c = "M" -> "m" [] c = "S" -> "s" [] c = "T" -> "t"
      [] c = "V" -> "v" [] OTHER -> c

IsAlnum(c) == c \notin {" ", "-", "_"}

\* _action_key_for_rule(rule_name): lower-cased, stripped, every character that is
\* not alphanumeric replaced by "_", between "disable_" and "_at_time"
action_key_for_rule(rule_name) ==
    LET base == Strip([i \in DOMAIN rule_name |-> LowerChar(rule_name[i])])
        safe == [i \in DOMAIN base |-> IF IsAlnum(base[i]) THEN base[i] ELSE "_"]
    IN  <<"disable_">> \o safe \o <<"_at_time">>

----------------------------------------------------------------------------
(* The arguments of the scheduled enforcer *)

\* 'Manual Sophie - Allow' (the rule of the unit tests) and 'TV Allow'
ManualSophieAllow ==
    <<"M", "a", "n", "u", "a", "l", " ", "S", "o", "p", "h", "i", "e", " ", "-", " ",
      "A", "l", "l", "o", "w">>

TvAllow == <<"T", "V", " ", "A", "l", "l", "o", "w">>

EnforcedRules == {ManualSophieAllow, TvAllow}

\* the rule_name arguments: the two rules and the empty name
RuleNameArgs == EnforcedRules \cup {<<>>}

\* '19:30' and '7:5', which _parse_hhmm accepts
ValidTimeStrs == { <<"1", "9", ":", "3", "0">>, <<"7", ":", "5">> }

\* '1930' and the empty string (or None)
MissingColon == { <<"1", "9", "3", "0">>, <<>> }

\* 'ab:30' and '19:30:00'
NonNumeric ==
    { <<"a", "b", ":", "3", "0">>, <<"1", "9", ":", "3", "0", ":", "0", "0">> }

\* '24:00' and '-1:30'
HourOutside == { <<"2", "4", ":", "0", "0">>, <<"-", "1", ":", "3", "0">> }

\* '19:60'
MinuteOutside == { <<"1", "9", ":", "6", "0">> }

InvalidTimeStrs == MissingColon \cup NonNumeric \cup HourOutside \cup MinuteOutside

TimeStrs == ValidTimeStrs \cup InvalidTimeStrs

\* _parse_hhmm and _action_key_for_rule on the arguments that occur, worked out once
ParsedTimes == [t \in TimeStrs |-> parse_hhmm(t)]

ActionKeys == [r \in RuleNameArgs |-> action_key_for_rule(r)]

----------------------------------------------------------------------------
(* The store of the scheduled actions: has_action_run_today and                *)
(* mark_action_run_today are called by scheduled_actions.py and are not part   *)
(* of state_manager.py; they follow the ScheduledActionState of the            *)
(* specification (a map from action key to the date the action last ran).      *)

has_action_run_today(st, action_key, today_str) ==
    action_key \in DOMAIN st /\ st[action_key] = today_str

mark_action_run_today(st, action_key, today_str) ==
    [k \in DOMAIN st \cup {action_key} |-> IF k = action_key THEN today_str ELSE st[k]]

----------------------------------------------------------------------------
(* scheduled_actions.ScheduledRuleEnforcer.enforce_daily_disable *)

HasRunCall(action_key, today_str) ==
    [op |-> "has_action_run_today", key |-> action_key, date |-> today_str]
MarkRunCall(action_key, today_str) ==
    [op |-> "mark_action_run_today", key |-> action_key, date |-> today_str]

\* the second of the day of a reading of the clock
SecondOfDay(clock) == clock.hour * 3600 + clock.minute * 60 + clock.second

\* (the scheduled instant itself counted as too early)
TooEarly_Inclusive(clock, target_hour, target_minute) ==
    SecondOfDay(clock) <= target_hour * 3600 + target_minute * 60

\* lines 73-75: now < now.replace(hour=target_hour, minute=target_minute,
\* second=0, microsecond=0)
TooEarly(clock, target_hour, target_minute) ==
    SecondOfDay(clock) < target_hour * 3600 + target_minute * 60

\* (the store not asked)
AlreadyRun_Unchecked(has_store, st, action_key, today_str) == FALSE

\* (the store asked about the key whatever the date)
AlreadyRun_AnyDate(has_store, st, action_key, today_str) ==
    has_store /\ action_key \in DOMAIN st

\* (an enforcer without a store takes the action as run)
AlreadyRun_NoStoreMeansRun(has_store, st, action_key, today_str) ==
    ~has_store \/ has_action_run_today(st, action_key, today_str)

\* line 80: self._state and self._state.has_action_run_today(action_key, today_str)
AlreadyRun(has_store, st, action_key, today_str) ==
    has_store /\ has_action_run_today(st, action_key, today_str)

\* (whatever set_rule_status did counts as success)
Success_Always(outcome) == TRUE

\* lines 86-92: success is what set_rule_status returned; an exception out of it
\* ends the call with False
Success(outcome) == outcome = "True"

\* (completion is not recorded)
RecordDue_Never(success, has_store) == FALSE

\* lines 92-95: completion is recorded on success, when there is a store
RecordDue(success, has_store) == success /\ has_store

\* [ret, raised, why, calls, state, rules]: enforce_daily_disable at the reading
\* `clock' of the wall clock, for an enforcer whose store (if has_store) holds st
\* and whose sophos client is `actuator'
enforce_daily_disable(rule_name, at_time_str, clock, has_store, st, actuator) ==
    LET quiet(why, calls) ==
            [ret |-> FALSE, raised |-> FALSE, why |-> why, calls |-> calls,
             outcome |-> "not_called", state |-> st, rules |-> actuator.fw]
        parsed == ParsedTimes[at_time_str]
        today_str == clock.day
        action_key == ActionKeys[rule_name]
        asked == IF has_store THEN <<HasRunCall(action_key, today_str)>> ELSE <<>>
    IN
    IF rule_name = <<>>
    THEN quiet("rule_name not set", <<>>)
    ELSE IF parsed.raised
    THEN quiet("invalid scheduled time", <<>>)
    ELSE IF TooEarly(clock, parsed.hour, parsed.minute)
    THEN quiet("too early", <<>>)
    ELSE IF AlreadyRun(has_store, st, action_key, today_str)
    THEN quiet("already completed today", asked)
    ELSE
    LET r == actuator.set_rule_status[FALSE]
        success == Success(r.outcome)
        records == RecordDue(success, has_store)
    IN  [ret |-> success,
         raised |-> FALSE,
         why |-> IF success THEN "disabled"
                 ELSE IF r.outcome = "False" THEN "API reported failure"
                 ELSE "exception",
         calls |-> asked \o <<SetCall(rule_name, FALSE)>>
                     \o (IF records THEN <<MarkRunCall(action_key, today_str)>> ELSE <<>>),
         outcome |-> r.outcome,
         state |-> IF records THEN mark_action_run_today(st, action_key, today_str)
                   ELSE st,
         rules |-> r.rules]

----------------------------------------------------------------------------
(* Calls of enforce_daily_disable on one ScheduledRuleEnforcer, as the unit    *)
(* tests of test_scheduled_actions.py make them, against a firewall that       *)
(* holds the rules.  The clock reads the instants around the scheduled time.   *)

\* the readings of the clock within a day: midnight, the second before 19:30,
\* 19:30:00 and the last second of the day
Instants ==
    << [hour |-> 0, minute |-> 0, second |-> 0],
       [hour |-> 19, minute |-> 29, second |-> 59],
       [hour |-> 19, minute |-> 30, second |-> 0],
       [hour |-> 23, minute |-> 59, second |-> 59] >>

ClockAt(day, i) ==
    [day |-> day, hour |-> Instants[i].hour, minute |-> Instants[i].minute,
     second |-> Instants[i].second]

\* the (rule, date) pairs for which a call has returned True
History(succeeded) == [kind |-> "history", succeeded |-> succeeded]

InitEnforcer ==
    /\ pc = "enforcer"
    /\ idx = 1
    /\ services \in [todoist : {FALSE}, sophos : {TRUE}, state_manager : BOOLEAN]
    /\ now = ClockAt(1, 1)
    /\ state = EmptyStore
    /\ file = MissingFile
    /\ rules \in [EnforcedRules -> {"enable", "disable"}]
    /\ last = NoCall
    /\ prev = History({})
    /\ loaded = "none"
    /\ saved = EmptyStore
    /\ log = <<>>

\* the argument pairs of the calls: every rule name with every HH:MM string, and
\* a rule with every string that is not HH:MM
EnforcerArgs == (RuleNameArgs \X ValidTimeStrs) \cup ({TvAllow} \X InvalidTimeStrs)

\* the faults worth drawing for the firewall call: one when the call is not made
FaultDraws(rule_name, at_time_str, clock, has_store, st, fw) ==
    IF enforce_daily_disable(rule_name, at_time_str, clock, has_store, st,
                             SophosClient(fw, rule_name, "none")).outcome = "not_called"
    THEN {"none"} ELSE SophosFaults

\* the latest call was for this rule on this day and its set_rule_status call
\* returned False or raised
FailedJustBefore(rule_name, day) ==
    /\ last.kind = "enforce"
    /\ last.rule_name = rule_name /\ last.clock.day = day
    /\ last.res.outcome \notin {"not_called", "True"}

\* enforcer.enforce_daily_disable(rule_name, at_time_str); the record of the call
\* notes whether it comes right after a failed one (retry) and whether a call for
\* the rule has returned True earlier that day (again)
EnforceDailyDisable ==
    /\ pc = "enforcer"
    /\ \E args \in EnforcerArgs :
       \E fault \in FaultDraws(args[1], args[2], now, services.state_manager,
                                state, rules) :
         LET rule_name == args[1]
             at_time_str == args[2]
             res == enforce_daily_disable(rule_name, at_time_str, now,
                                          services.state_manager, state,
                                          SophosClient(rules, rule_name, fault))
         IN
         /\ state' = res.state
         /\ rules' = res.rules
         /\ last' = [kind |-> "enforce", rule_name |-> rule_name,
                     at_time_str |-> at_time_str, clock |-> now,
                     before |-> state, fw |-> rules, res |-> res,
                     retry |-> FailedJustBefore(rule_name, now.day),
                     again |-> <<rule_name, now.day>> \in prev.succeeded]
         /\ prev' = IF res.ret
                    THEN History(prev.succeeded \cup {<<rule_name, now.day>>})
                    ELSE prev
    /\ UNCHANGED <<pc, idx, services, now, file, loaded, saved, log>>

\* the wall clock moves on to the next reading, within the day or into the next
\* (the record of the latest call is for calls of one day)
TickEnforcer ==
    /\ pc \in {"enforcer", "enforcer_state_manager"}
    /\ \/ /\ idx < Len(Instants)
          /\ idx' = idx + 1
          /\ now' = ClockAt(now.day, idx + 1)
          /\ last' = last
       \/ /\ idx = Len(Instants)
          /\ now.day < MaxDay
          /\ idx' = 1
          /\ now' = ClockAt(now.day + 1, 1)
          /\ last' = NoCall
    /\ UNCHANGED <<pc, services, state, file, rules, prev, loaded, saved, log>>

NextEnforcer == EnforceDailyDisable \/ TickEnforcer

SpecEnforcer == InitEnforcer /\ [][NextEnforcer]_vars

----------------------------------------------------------------------------
(* Reading the record of an enforce_daily_disable call *)

\* the latest call was for a rule with a name and a time string that is HH:MM
EnforcedRule ==
    /\ last.kind = "enforce"
    /\ last.rule_name \in EnforcedRules
    /\ last.at_time_str \in ValidTimeStrs

\* the scheduled second of the day, read off the time string by hand
ScheduledSecond(at_time_str) ==
    IF at_time_str = <<"1", "9", ":", "3", "0">> THEN 19 * 3600 + 30 * 60
    ELSE 7 * 3600 + 5 * 60

BeforeScheduled == SecondOfDay(last.clock) < ScheduledSecond(last.at_time_str)

\* the action key of a rule, written out by hand
ExpectedKey(rule_name) ==
    IF rule_name = ManualSophieAllow
    THEN <<"disable_", "m", "a", "n", "u", "a", "l", "_", "s", "o", "p", "h", "i", "e",
           "_", "_", "_", "a", "l", "l", "o", "w", "_at_time">>
    ELSE <<"disable_", "t", "v", "_", "a", "l", "l", "o", "w", "_at_time">>

\* the store held today's date under the rule's key when the call began
RecordedBefore ==
    /\ ExpectedKey(last.rule_name) \in DOMAIN last.before
    /\ last.before[ExpectedKey(last.rule_name)] = last.clock.day

\* the calls of the latest enforce_daily_disable with the given op
EnforcerCalls(op) ==
    SelectSeq(last.res.calls, LAMBDA c : c.op = op)

\* the call did nothing: no actuator call, nothing recorded, store and firewall
\* as they were
NoAction ==
    /\ ~last.res.ret /\ ~last.res.raised
    /\ EnforcerCalls("set_rule_status") = <<>>
    /\ EnforcerCalls("mark_action_run_today") = <<>>
    /\ last.res.state = last.before
    /\ last.res.rules = last.fw

----------------------------------------------------------------------------
(* C22: too early (SpecEnforcer) *)

\* C22: a call strictly before today's scheduled HH:MM:00 returns False, calls
\* neither set_rule_status nor mark_action_run_today and leaves store and firewall
\* alone; a call at the scheduled second or later is not too early: it goes on to
\* the store (when there is one) and, unless today is recorded, to set_rule_status.
C22_TooEarly ==
    /\ (EnforcedRule /\ BeforeScheduled) =>
          /\ NoAction
          /\ last.res.calls = <<>>
          /\ last.res.why = "too early"
    /\ (EnforcedRule /\ ~BeforeScheduled) =>
          /\ last.res.why # "too early"
          /\ services.state_manager => Len(EnforcerCalls("has_action_run_today")) = 1
          /\ \/ Len(EnforcerCalls("set_rule_status")) = 1
             \/ last.res.why = "already completed today"

\* 19:29:59 against '19:30', nothing recorded for today, a store at hand
C22_Witness ==
    /\ EnforcedRule /\ BeforeScheduled /\ services.state_manager
    /\ last.at_time_str = <<"1", "9", ":", "3", "0">>
    /\ last.clock.hour = 19 /\ last.clock.minute = 29 /\ last.clock.second = 59
    /\ ~RecordedBefore /\ NoAction

\* 19:30:00 against '19:30': set_rule_status is called
C22_Witness_AtScheduled ==
    /\ EnforcedRule /\ ~BeforeScheduled
    /\ last.at_time_str = <<"1", "9", ":", "3", "0">>
    /\ last.clock.hour = 19 /\ last.clock.minute = 30 /\ last.clock.second = 0
    /\ Len(EnforcerCalls("set_rule_status")) = 1

----------------------------------------------------------------------------
(* C23: the first qualifying check (SpecEnforcer) *)

\* the latest call came at or after the scheduled time, the enforcer has a store
\* and the store held no record of today for the rule
FirstQualifyingCheck ==
    /\ EnforcedRule /\ ~BeforeScheduled
    /\ services.state_manager /\ ~RecordedBefore

\* C23: at or after the scheduled time, with no record for today in the store,
\* enforce_daily_disable calls set_rule_status exactly once, with the rule and
\* target_enabled_state=False; when that returns True (the rule disabled now or
\* disabled already) it calls mark_action_run_today once with the rule's action
\* key and today's date, the store then holds today under that key, every other
\* key is as it was, and the call returns True.
C23_FirstCheckDisablesAndRecords ==
    FirstQualifyingCheck =>
        /\ EnforcerCalls("set_rule_status") = <<SetCall(last.rule_name, FALSE)>>
        /\ last.res.outcome = "True" =>
              /\ last.res.ret /\ ~last.res.raised
              /\ EnforcerCalls("mark_action_run_today")
                    = <<MarkRunCall(ExpectedKey(last.rule_name), last.clock.day)>>
              /\ ExpectedKey(last.rule_name) \in DOMAIN last.res.state
              /\ last.res.state[ExpectedKey(last.rule_name)] = last.clock.day
              /\ \A k \in DOMAIN last.before \ {ExpectedKey(last.rule_name)} :
                    k \in DOMAIN last.res.state /\ last.res.state[k] = last.before[k]
              /\ last.res.rules[last.rule_name] = "disable"

\* the rule was enabled and is disabled by the call
C23_Witness ==
    /\ FirstQualifyingCheck /\ last.res.ret
    /\ last.fw[last.rule_name] = "enable" /\ last.res.rules[last.rule_name] = "disable"
    /\ last.res.state[ExpectedKey(last.rule_name)] = last.clock.day

\* the rule was disabled already: still recorded, still True
C23_Witness_AlreadyDisabled ==
    /\ FirstQualifyingCheck /\ last.res.ret
    /\ last.fw[last.rule_name] = "disable"
    /\ last.res.state[ExpectedKey(last.rule_name)] = last.clock.day

\* the store held yesterday's date under the key, and the other rule's record stays
C23_Witness_OtherKeyKept ==
    /\ FirstQualifyingCheck /\ last.res.ret
    /\ DOMAIN last.before = {ExpectedKey(r) : r \in EnforcedRules}
    /\ last.before[ExpectedKey(last.rule_name)] = last.clock.day - 1

----------------------------------------------------------------------------
(* C24: a failed enforcement can be tried again (SpecEnforcer) *)

\* set_rule_status was called and returned False or raised
ActuatorFailedInEnforce ==
    /\ last.kind = "enforce"
    /\ last.res.outcome \notin {"not_called", "True"}

\* C24: when set_rule_status returns False or raises, enforce_daily_disable
\* returns False, raises nothing, does not call mark_action_run_today and leaves
\* the store as it was; the next call for the rule on that day, at or after the
\* scheduled time, calls set_rule_status again.
C24_FailureIsRetryable ==
    /\ ActuatorFailedInEnforce =>
          /\ ~last.res.ret /\ ~last.res.raised
          /\ EnforcerCalls("mark_action_run_today") = <<>>
          /\ last.res.state = last.before
    /\ (EnforcedRule /\ ~BeforeScheduled /\ last.retry) =>
          EnforcerCalls("set_rule_status") = <<SetCall(last.rule_name, FALSE)>>

\* set_rule_status returned False (the update was rejected), a store at hand
C24_Witness_ReturnsFalse ==
    /\ ActuatorFailedInEnforce /\ last.res.outcome = "False"
    /\ services.state_manager /\ ~last.res.ret /\ ~RecordedBefore

\* set_rule_status raised
C24_Witness_Raises ==
    /\ ActuatorFailedInEnforce /\ last.res.outcome = "SophosApiError"
    /\ services.state_manager /\ ~last.res.ret

\* the call after the failed one: the actuator is called again, succeeds, and the
\* day is recorded
C24_Witness ==
    /\ EnforcedRule /\ ~BeforeScheduled /\ last.retry /\ services.state_manager
    /\ last.res.ret
    /\ last.res.state[ExpectedKey(last.rule_name)] = last.clock.day

----------------------------------------------------------------------------
(* C25: at most one successful run per rule and day (SpecEnforcer) *)

\* C25: for an enforcer with a store: once a call for a rule has returned True on
\* a date, every later call for that rule on that date returns False, calls
\* neither set_rule_status nor mark_action_run_today and changes nothing; so no
\* call that returns True comes after another one of that rule and date.
C25_OncePerDay ==
    /\ (last.kind = "enforce" /\ services.state_manager /\ last.again) =>
          /\ NoAction
          /\ RecordedBefore
    /\ (last.kind = "enforce" /\ services.state_manager /\ last.res.ret) =>
          ~last.again

\* a later call at or after the scheduled time, which only the record in the
\* store holds back
C25_Witness ==
    /\ EnforcedRule /\ ~BeforeScheduled /\ services.state_manager /\ last.again
    /\ last.res.why = "already completed today"
    /\ last.fw[last.rule_name] = "disable"

\* the later call comes with another time string
C25_Witness_OtherTime ==
    /\ EnforcedRule /\ ~BeforeScheduled /\ services.state_manager /\ last.again
    /\ last.at_time_str = <<"7", ":", "5">>
    /\ last.res.why = "already completed today"

----------------------------------------------------------------------------
(* C26: the next calendar day (SpecEnforcer) *)

\* a call for the rule returned True yesterday, the store holds yesterday's date
\* under the rule's key, and the latest call comes today at or after the scheduled
\* time
NextDayCheck ==
    /\ EnforcedRule /\ ~BeforeScheduled
    /\ <<last.rule_name, last.clock.day - 1>> \in prev.succeeded
    /\ ExpectedKey(last.rule_name) \in DOMAIN last.before
    /\ last.before[ExpectedKey(last.rule_name)] = last.clock.day - 1

\* C26: with D recorded and nothing reset, the check on D+1 calls set_rule_status
\* again, once, with target_enabled_state=False; it returns True and records D+1
\* when that call returns True (and returns False, the record of D kept, when the
\* call fails).
C26_RearmsNextDay ==
    NextDayCheck =>
        /\ EnforcerCalls("set_rule_status") = <<SetCall(last.rule_name, FALSE)>>
        /\ ~last.res.raised
        /\ last.res.ret <=> last.res.outcome = "True"
        /\ last.res.ret =>
              last.res.state[ExpectedKey(last.rule_name)] = last.clock.day
        /\ ~last.res.ret => last.res.state = last.before

\* the check on D+1 succeeds and D+1 is recorded
C26_Witness ==
    /\ NextDayCheck /\ last.res.ret
    /\ last.res.state[ExpectedKey(last.rule_name)] = last.clock.day
    /\ last.res.rules[last.rule_name] = "disable"

\* set_rule_status fails on D+1
C26_Witness_Fails ==
    /\ NextDayCheck /\ ~last.res.ret
    /\ last.res.outcome \in {"False", "SophosApiError"}

----------------------------------------------------------------------------
(* C27: a time string that is not HH:MM (SpecEnforcer) *)

\* the latest call had a time string of the given set, and nothing else would
\* have held it back: a rule with a name, no record of today, the rule enabled
InvalidTimeCall(strs) ==
    /\ last.kind = "enforce"
    /\ last.at_time_str \in strs
    /\ last.rule_name \in EnforcedRules
    /\ ~RecordedBefore
    /\ last.fw[last.rule_name] = "enable"

\* C27: with a time string that has no colon, a part that is not a number, an hour
\* outside 0-23 or a minute outside 0-59, enforce_daily_disable returns False,
\* raises nothing, calls neither the store nor set_rule_status, and store and
\* firewall stay as they were, at every reading of the clock.
C27_InvalidTimeNoAction ==
    (last.kind = "enforce" /\ last.at_time_str \in InvalidTimeStrs) =>
        /\ NoAction
        /\ last.res.calls = <<>>
        /\ last.rule_name # <<>> => last.res.why = "invalid scheduled time"

C27_Witness_MissingColon ==
    InvalidTimeCall(MissingColon) /\ last.clock.hour = 23 /\ NoAction

C27_Witness_NonNumeric ==
    InvalidTimeCall(NonNumeric) /\ last.clock.hour = 23 /\ NoAction

C27_Witness_HourOutside ==
    InvalidTimeCall(HourOutside) /\ last.clock.hour = 23 /\ NoAction

C27_Witness_MinuteOutside ==
    InvalidTimeCall(MinuteOutside) /\ last.clock.hour = 23 /\ NoAction

\* '19:30:00' in the last second of the day
C27_Witness ==
    /\ InvalidTimeCall({<<"1", "9", ":", "3", "0", ":", "0", "0">>})
    /\ last.clock.hour = 23 /\ NoAction /\ services.state_manager

----------------------------------------------------------------------------
(* The SophosClient on its own: set_rule_status calls, one after the other,    *)
(* against a firewall that holds the two block rules in any status.            *)

\* the rule names handed to set_rule_status: the two rules and one the firewall
\* does not have
SophosRuleArgs == RuleNames \cup {"No_Such_Rule"}

InitSophos ==
    /\ pc = "sophos"
    /\ idx = 0
    /\ services = [todoist |-> FALSE, sophos |-> TRUE, state_manager |-> FALSE]
    /\ now = [day |-> 1, hour |-> 0]
    /\ state = EmptyStore
    /\ file = MissingFile
    /\ rules \in Firewalls
    /\ last = NoCall
    /\ prev = NoCall
    /\ loaded = "none"
    /\ saved = EmptyStore
    /\ log = <<>>

\* sophos_client.set_rule_status(rule_name, target_enabled_state); prev is the
\* call before it
SetRuleStatus ==
    /\ pc = "sophos"
    /\ \E rule_name \in SophosRuleArgs, target_enabled_state \in BOOLEAN,
          fault \in SophosFaults :
         LET r == set_rule_status(rules, rule_name, target_enabled_state, fault)
         IN  /\ rules' = r.rules
             /\ last' = [kind |-> "set", rule_name |-> rule_name,
                         target_enabled_state |-> target_enabled_state,
                         fault |-> fault, before |-> rules, r |-> r]
             /\ prev' = last
    /\ UNCHANGED <<pc, idx, services, now, state, file, loaded, saved, log>>

NextSophos == SetRuleStatus

SpecSophos == InitSophos /\ [][NextSophos]_vars

----------------------------------------------------------------------------
(* C28: set_rule_status is idempotent (SpecSophos) *)

\* the call found the rule and read its status
RuleRead(call) ==
    /\ call.kind = "set"
    /\ call.rule_name \in DOMAIN call.before
    /\ call.fault \notin {"rule_not_found", "get_error"}

\* the rule was in the target status when the call was made
InTargetState(call) ==
    /\ RuleRead(call)
    /\ call.before[call.rule_name] = StatusStr(call.target_enabled_state)

\* two successful calls in a row for one rule and one target
SameCallTwice ==
    /\ prev.kind = "set" /\ last.kind = "set"
    /\ prev.rule_name = last.rule_name
    /\ prev.target_enabled_state = last.target_enabled_state
    /\ prev.r.outcome = "True" /\ last.r.outcome = "True"

\* C28: a set_rule_status call that reads the rule and finds it in the target
\* status returns True, submits no update and leaves the firewall as it is; and of
\* two successful calls in a row with one rule and one target, whatever the status
\* at the start, the first leaves the rule in the target status and the second
\* submits nothing and changes nothing.
C28_ActuatorIdempotent ==
    /\ InTargetState(last) =>
          /\ last.r.outcome = "True"
          /\ ~last.r.submitted
          /\ last.r.rules = last.before
    /\ SameCallTwice =>
          /\ prev.r.rules[prev.rule_name] = StatusStr(prev.target_enabled_state)
          /\ last.before = prev.r.rules
          /\ ~last.r.submitted
          /\ last.r.rules = last.before
          /\ rules[last.rule_name] = StatusStr(last.target_enabled_state)

\* the rule was disabled and is asked to be disabled
C28_Witness_NoOp ==
    /\ InTargetState(last) /\ ~last.target_enabled_state
    /\ last.before[last.rule_name] = "disable"
    /\ last.r.outcome = "True"

\* two calls in a row, the first of which changed the rule
C28_Witness ==
    /\ SameCallTwice
    /\ prev.before[prev.rule_name] # StatusStr(prev.target_enabled_state)
    /\ prev.r.submitted /\ ~last.r.submitted

----------------------------------------------------------------------------
(* todoist_client.TodoistClient.are_child_tasks_incomplete: one call at a      *)
(* time, each pass of its retry loop a step.                                   *)

MAX_RETRIES == 3

RETRY_DELAY_SECONDS == 5

MaxTasks == 2

\* a task of the section: is_completed and due.date (0: no due date; -1: a
\* string that strptime cannot read as a date)
Tasks == [is_completed : BOOLEAN, due : -1..(MaxDay + 1)]

\* what get_tasks hands back, its pages collected
TaskLists == UNION { [1..n -> Tasks] : n \in 0..MaxTasks }

\* what a pass of the loop can meet: an exception of BASE_API_EXCEPTION, any other
\* exception, or the tasks
FetchFailures == {"api_error", "unexpected_error"}

\* (a task due today does not count)
Relevant_BeforeToday(task, today) ==
    IF task.is_completed THEN FALSE
    ELSE IF task.due = 0 THEN FALSE
    ELSE IF task.due = -1 THEN FALSE
    ELSE task.due < today

\* lines 168-190, the body of the loop over the tasks: a completed task is passed
\* over, and so is one without a due date and one whose date string does not
\* parse; otherwise due_date <= today
Relevant(task, today) ==
    IF task.is_completed THEN FALSE
    ELSE IF task.due = 0 THEN FALSE
    ELSE IF task.due = -1 THEN FALSE
    ELSE task.due <= today

\* lines 167-204: the loop returns True at the first such task and False when it
\* has gone through the list
RECURSIVE ScanTasks(_, _, _)
ScanTasks(collected_tasks, i, today) ==
    IF i > Len(collected_tasks) THEN FALSE
    ELSE IF Relevant(collected_tasks[i], today) THEN TRUE
    ELSE ScanTasks(collected_tasks, i + 1, today)

IncompleteDueTask(collected_tasks, today) == ScanTasks(collected_tasks, 1, today)

\* (no pass counts as the last one)
LastAttempt_Never(attempt) == FALSE

\* lines 211 and 223: attempt + 1 == MAX_RETRIES
LastAttempt(attempt) == attempt + 1 = MAX_RETRIES

\* the passes of the loop as they go by: what the fetch met (the tasks, or the
\* failure and no tasks), and the sleeps
GetTasksEvent(attempt, response, collected_tasks) ==
    [op |-> "get_tasks", attempt |-> attempt, response |-> response,
     tasks |-> collected_tasks]

SleepEvent == [op |-> "sleep", seconds |-> RETRY_DELAY_SECONDS]

OracleReturned(ret) == [kind |-> "oracle", raised |-> "none", ret |-> ret]

OracleRaised(error) == [kind |-> "oracle", raised |-> error, ret |-> FALSE]

InitTodoist ==
    /\ pc = "oracle_idle"
    /\ idx = 0
    /\ services = [todoist |-> TRUE, sophos |-> FALSE, state_manager |-> FALSE]
    /\ now \in [day : Days, hour : {CUTOFF_HOUR}]
    /\ state = EmptyStore
    /\ file = MissingFile
    /\ rules = AllEnabled
    /\ last = NoCall
    /\ prev = NoCall
    /\ loaded = "none"
    /\ saved = EmptyStore
    /\ log = <<>>

\* lines 127-137: the call begins; an empty section_id raises ValueError, a failure
\* to read the date TodoistClientError, both before any fetch
AreChildTasksIncomplete ==
    /\ pc \in {"oracle_idle", "oracle_done"}
    /\ \E section_id \in {"", SectionOf("Daniel")}, date_fails \in BOOLEAN :
         /\ prev' = [kind |-> "args", section_id |-> section_id]
         /\ IF section_id = ""
            THEN pc' = "oracle_done" /\ last' = OracleRaised("ValueError")
            ELSE IF date_fails
            THEN pc' = "oracle_done" /\ last' = OracleRaised("TodoistClientError")
            ELSE pc' = "oracle_loop" /\ last' = NoCall
    /\ idx' = 0
    /\ log' = <<>>
    /\ UNCHANGED <<services, now, state, file, rules, loaded, saved>>

\* lines 140-232: one pass of `for attempt in range(MAX_RETRIES)': the fetch, then
\* the return, the raise, or the sleep before the next pass.  A pass that sleeps
\* with no pass left falls out of the loop to the raise of line 232.
Attempt ==
    /\ pc = "oracle_loop"
    /\ idx < MAX_RETRIES
    /\ \/ \E collected_tasks \in TaskLists :
            /\ log' = Append(log, GetTasksEvent(idx, "tasks", collected_tasks))
            /\ last' = OracleReturned(IncompleteDueTask(collected_tasks, now.day))
            /\ pc' = "oracle_done"
            /\ idx' = idx
       \/ \E failure \in FetchFailures :
            IF LastAttempt(idx)
            THEN /\ log' = Append(log, GetTasksEvent(idx, failure, <<>>))
                 /\ last' = OracleRaised(IF failure = "api_error" THEN "TodoistApiError"
                                         ELSE "TodoistClientError")
                 /\ pc' = "oracle_done"
                 /\ idx' = idx
            ELSE /\ log' = log \o <<GetTasksEvent(idx, failure, <<>>), SleepEvent>>
                 /\ IF idx + 1 < MAX_RETRIES
                    THEN pc' = pc /\ last' = last
                    ELSE pc' = "oracle_done" /\ last' = OracleRaised("TodoistClientError")
                 /\ idx' = idx + 1
    /\ UNCHANGED <<services, now, state, file, rules, prev, loaded, saved>>

NextTodoist == AreChildTasksIncomplete \/ Attempt

\* a call that has begun goes on: nothing else runs in the process
SpecTodoist == InitTodoist /\ [][NextTodoist]_vars /\ WF_vars(Attempt)

----------------------------------------------------------------------------
(* C29: the retry loop of the oracle (SpecTodoist) *)

Fetches == SelectSeq(log, LAMBDA e : e.op = "get_tasks")

Sleeps == SelectSeq(log, LAMBDA e : e.op = "sleep")

Failed(e) == e.response \in FetchFailures

\* fetches and sleeps alternate, beginning with a fetch; every sleep is the fixed
\* delay
Alternating ==
    \A i \in DOMAIN log :
        /\ log[i].op = (IF i % 2 = 1 THEN "get_tasks" ELSE "sleep")
        /\ log[i].op = "sleep" => log[i].seconds = 5

\* the state of a call that has ended in the loop
EndedInLoop == pc = "oracle_done" /\ Len(log) > 0

\* C29, the bound: at most three fetches; the delay of five seconds between two
\* fetches and never after the last one; a call that returns gives the boolean of
\* its first successful fetch, which is its last fetch; a call whose three fetches
\* all failed raises, TodoistApiError when the last failure was an API or network
\* error; and no call raises out of the loop before its third fetch.
C29_Bounded ==
    /\ Len(Fetches) <= 3
    /\ Alternating
    /\ pc = "oracle_loop" => (Len(Fetches) = idx /\ Len(Sleeps) = idx /\ idx < 3)
    /\ EndedInLoop =>
          /\ log[Len(log)].op = "get_tasks"
          /\ Len(Sleeps) = Len(Fetches) - 1
          /\ \A i \in 1..(Len(Fetches) - 1) : Failed(Fetches[i])
          /\ last.raised = "none" <=> ~Failed(Fetches[Len(Fetches)])
          /\ last.raised = "none" =>
                last.ret = IncompleteDueTask(Fetches[Len(Fetches)].tasks, now.day)
          /\ last.raised # "none" =>
                /\ Len(Fetches) = 3
                /\ last.raised \in {"TodoistApiError", "TodoistClientError"}
                /\ last.raised = "TodoistApiError"
                      <=> Fetches[3].response = "api_error"

\* C29: the bound, and every call that has begun its loop ends.
C29_RetryLoopTerminates ==
    /\ []C29_Bounded
    /\ (pc = "oracle_loop") ~> (pc = "oracle_done")

\* three failed fetches, two sleeps, TodoistApiError
C29_Witness ==
    /\ EndedInLoop /\ Len(Fetches) = 3 /\ Len(Sleeps) = 2
    /\ last.raised = "TodoistApiError"

\* the second fetch succeeds after one failure and one sleep
C29_Witness_SecondAttempt ==
    /\ EndedInLoop /\ Len(Fetches) = 2 /\ Len(Sleeps) = 1
    /\ last.raised = "none" /\ last.ret

\* two API failures, then an unexpected error: TodoistClientError
C29_Witness_ClientError ==
    /\ EndedInLoop /\ Len(Fetches) = 3
    /\ Fetches[1].response = "api_error" /\ Fetches[3].response = "unexpected_error"
    /\ last.raised = "TodoistClientError"

----------------------------------------------------------------------------
(* C30: the exit status of the process (Spec) *)

\* the oracle of the latest invocation raised
OracleFailedInRun == Decided /\ last.res.oracle \in OracleErrors

\* the latest invocation of process_child met a failure of its own: its oracle
\* raised, its firewall call returned False or raised, or process_child itself
\* raised
ChildFailed ==
    /\ last.kind = "call"
    /\ (OracleFailedInRun \/ ActuatorFailed \/ last.raised)

\* the process ended at the import of config: it made no call at all
ExitedAtConfig ==
    /\ pc = "config_error"
    /\ log = <<>>
    /\ services = NoServices
    /\ last = NoCall

\* the step in which a process ends at the import of config touches neither a
\* firewall rule nor the state file
ConfigFailureTouchesNothing ==
    (pc' = "config_error") => (rules' = rules /\ file' = file /\ saved' = saved)

\* the exit status in every state: 1 only for a process that ended at the import
\* of config, having made no call; a child's failure leaves the run going, to the
\* next child or to save_state; a run that returned has exit status 0
ExitStatusInv ==
    /\ (exit_status = 1) <=> (pc = "config_error")
    /\ (pc = "config_error") => ExitedAtConfig
    /\ (pc \in {"done", "aborted"}) => (exit_status = 0)
    /\ ChildFailed =>
          pc = (IF last.cfg = CHILDREN_CONFIG[RosterSize] THEN "save" ELSE "children")
    /\ (pc = "done" /\ SomeChildRaised) => (CompleteLog /\ exit_status = 0)

C30_Witness_ConfigFailure ==
    /\ pc = "config_error" /\ exit_status = 1
    /\ rules # AllEnabled

\* the oracle raised for the last child; the run is on its way to save_state
C30_Witness_OracleError ==
    /\ ChildFailed /\ OracleFailedInRun /\ ~last.raised /\ pc = "save"

\* the firewall call failed for the first child; the run goes on
C30_Witness_ActuatorFailure ==
    /\ ChildFailed /\ ActuatorFailed /\ pc = "children"

----------------------------------------------------------------------------
(* C31: what mark_done_today leaves alone (SpecStore) *)

\* the key of a name, lowercased by hand
KeyOfName(child_name) ==
    IF child_name \in {"Daniel", "DANIEL", "daniel"} THEN "daniel" ELSE "sophie"

\* the latest call was mark_done_today with a name and a date that are not empty
MarkedWithArgs == last.kind = "mark" /\ last.name # "" /\ last.date # 0

\* every key other than the call's own is in the map as it was before the call
OtherKeysKept ==
    \A k \in (DOMAIN state \cup DOMAIN last.before) \ {KeyOfName(last.name)} :
        /\ k \in DOMAIN state /\ k \in DOMAIN last.before
        /\ state[k] = last.before[k]

\* the in-memory map after the latest mark_done_today call
MarkChangesOneEntry ==
    /\ MarkedWithArgs =>
          /\ OtherKeysKept
          /\ KeyOfName(last.name) \in DOMAIN state
          /\ state[KeyOfName(last.name)] = last.date
    /\ (last.kind = "mark" /\ ~MarkedWithArgs) => state = last.before

\* a mark_done_today step leaves the file as it is
MarkKeepsFile == (last'.kind = "mark") => (file' = file)

\* C31: after mark_done_today(key, dateStr) the in-memory map holds dateStr under
\* the lowercased key and every other key with the value it had (with an empty
\* key or date the map is as it was); the call leaves the state file untouched,
\* and only save_state changes the file.
C31_MarkInMemoryOnly ==
    /\ []MarkChangesOneEntry
    /\ [][MarkKeepsFile /\ (file' # file => last'.kind = "save")]_vars

\* DANIEL was marked in a map that held sophie's date: sophie's entry is kept,
\* daniel's entry is new, and the file still holds the older map
C31_Witness ==
    /\ MarkedWithArgs /\ last.name = "DANIEL"
    /\ "sophie" \in DOMAIN last.before /\ "daniel" \notin DOMAIN last.before
    /\ DOMAIN state = {"daniel", "sophie"}
    /\ state["sophie"] = last.before["sophie"] /\ state["daniel"] = last.date
    /\ file = JsonFile(last.before)

\* the entry of the key was overwritten with a later date, the other kept
C31_Witness_Overwrites ==
    /\ MarkedWithArgs
    /\ DOMAIN last.before = {"daniel", "sophie"}
    /\ last.before[KeyOfName(last.name)] # last.date
    /\ state # last.before

----------------------------------------------------------------------------
(* The scheduled enforcer constructed with the StateManager of                 *)
(* state_manager.py as its state_manager argument.                              *)

\* the methods that class StateManager defines
StateManagerMethods ==
    {"__init__", "load_state", "save_state", "check_if_done_today", "mark_done_today"}

\* the record of a call that an exception left
EnforcerRaised(error, calls, st, fw) ==
    [ret |-> FALSE, raised |-> TRUE, why |-> error, calls |-> calls,
     outcome |-> IF calls = <<>> THEN "not_called" ELSE "True",
     state |-> st, rules |-> fw]

\* enforce_daily_disable for an enforcer whose store is an object (truthy) with
\* the given methods: where the call gets to self._state.has_action_run_today
\* (line 80) or self._state.mark_action_run_today (line 95) and the object has
\* no such attribute, AttributeError comes out; neither line is inside a try
enforce_daily_disable_with(store_methods, rule_name, at_time_str, clock, st, actuator) ==
    LET r == enforce_daily_disable(rule_name, at_time_str, clock, TRUE, st, actuator)
        asks == r.calls # <<>> /\ r.calls[1].op = "has_action_run_today"
        marks == r.calls # <<>> /\ r.calls[Len(r.calls)].op = "mark_action_run_today"
    IN  IF asks /\ "has_action_run_today" \notin store_methods
        THEN EnforcerRaised("AttributeError", <<>>, st, actuator.fw)
        ELSE IF marks /\ "mark_action_run_today" \notin store_methods
        THEN EnforcerRaised("AttributeError",
                            SubSeq(r.calls, 1, Len(r.calls) - 1), st, r.rules)
        ELSE r

\* the maps a StateManager may hold when the enforcer gets it: nothing, or a
\* child's completion date (the key spelled as the action keys are)
OwnStores == {EmptyStore} \cup [{<<"s", "o", "p", "h", "i", "e">>} -> Days]

InitOwnStore ==
    /\ pc = "enforcer_state_manager"
    /\ idx = 1
    /\ services = [todoist |-> FALSE, sophos |-> TRUE, state_manager |-> TRUE]
    /\ now = ClockAt(1, 1)
    /\ state \in OwnStores
    /\ file = MissingFile
    /\ rules \in [EnforcedRules -> {"enable", "disable"}]
    /\ last = NoCall
    /\ prev = History({})
    /\ loaded = "none"
    /\ saved = EmptyStore
    /\ log = <<>>

\* enforcer.enforce_daily_disable(rule_name, at_time_str) on that enforcer
EnforceOnStateManager ==
    /\ pc = "enforcer_state_manager"
    /\ \E args \in EnforcerArgs :
         LET rule_name == args[1]
             at_time_str == args[2]
             res == enforce_daily_disable_with(StateManagerMethods, rule_name,
                                               at_time_str, now, state,
                                               SophosClient(rules, rule_name, "none"))
         IN
         /\ state' = res.state
         /\ rules' = res.rules
         /\ last' = [kind |-> "enforce", rule_name |-> rule_name,
                     at_time_str |-> at_time_str, clock |-> now,
                     before |-> state, fw |-> rules, res |-> res,
                     retry |-> FailedJustBefore(rule_name, now.day),
                     again |-> <<rule_name, now.day>> \in prev.succeeded]
         /\ prev' = IF res.ret
                    THEN History(prev.succeeded \cup {<<rule_name, now.day>>})
                    ELSE prev
    /\ UNCHANGED <<pc, idx, services, now, file, loaded, saved, log>>

NextOwnStore == EnforceOnStateManager \/ TickEnforcer

SpecOwnStore == InitOwnStore /\ [][NextOwnStore]_vars

----------------------------------------------------------------------------
(* C32: the enforcer on the repository's StateManager (SpecOwnStore) *)

\* the latest call came at or after the scheduled time with no record of today
QualifyingCheck == EnforcedRule /\ ~BeforeScheduled /\ ~RecordedBefore

\* C32: backed by the StateManager, a check at or after the scheduled time with
\* no record of today does not raise, and when the rule is disabled it returns
\* True with today recorded under the rule's action key in that store; a later
\* check of that day returns False and makes no actuator call.
C32_WorksWithStateManager ==
    /\ QualifyingCheck =>
          /\ ~last.res.raised
          /\ last.res.ret
          /\ ExpectedKey(last.rule_name) \in DOMAIN state
          /\ state[ExpectedKey(last.rule_name)] = last.clock.day
    /\ (last.kind = "enforce" /\ last.again) => NoAction

\* what the code does instead: the check raises AttributeError at the lookup of
\* has_action_run_today, before set_rule_status; the rule stays enabled and
\* nothing is recorded
C32_AttributeError ==
    /\ QualifyingCheck
    /\ last.res.raised /\ last.res.why = "AttributeError"
    /\ last.res.calls = <<>>
    /\ last.fw[last.rule_name] = "enable" /\ rules = last.fw
    /\ state = last.before

----------------------------------------------------------------------------
(* C33: what the oracle answers (SpecTodoist) *)

\* the call returned a boolean
OracleAnswered ==
    /\ pc = "oracle_done" /\ last.kind = "oracle" /\ last.raised = "none"
    /\ Len(Fetches) > 0

\* the tasks of the fetch that succeeded
FetchedTasks == Fetches[Len(Fetches)].tasks

\* the tasks of the fetch that are not completed and have a due date that is
\* today or earlier
OpenAndDue ==
    { i \in DOMAIN FetchedTasks :
        /\ ~FetchedTasks[i].is_completed
        /\ FetchedTasks[i].due \in 1..now.day }

C33_Witness_False ==
    /\ OracleAnswered /\ ~last.ret
    /\ Len(FetchedTasks) = 2
    /\ ~FetchedTasks[1].is_completed /\ FetchedTasks[1].due = 0
    /\ ~FetchedTasks[2].is_completed /\ FetchedTasks[2].due = now.day + 1

\* False for an open task whose date string does not parse
C33_Witness_BadDate ==
    /\ OracleAnswered /\ ~last.ret
    /\ Len(FetchedTasks) = 1
    /\ ~FetchedTasks[1].is_completed /\ FetchedTasks[1].due = -1

----------------------------------------------------------------------------
(* C34: default deny (SpecChild) *)

\* the hour of the invocation is before the cutoff
HourBeforeCutoff == last.ts.current_hour < last.ts.cutoff_hour

\* the store was asked and held today's date for the child
StoreReportedDone ==
    /\ NumCalls(last, "check_if_done_today") = 1
    /\ last.svc.state_manager /\ MarkedBefore

\* the oracle was asked and returned False
OracleReturnedFalse ==
    /\ NumCalls(last, "are_child_tasks_incomplete") = 1
    /\ last.svc.todoist /\ last.res.oracle = "False"

\* how many of the three conditions held
GroundsForDisable ==
    Cardinality({ g \in {"hour", "store", "oracle"} :
                    \/ g = "hour" /\ HourBeforeCutoff
                    \/ g = "store" /\ StoreReportedDone
                    \/ g = "oracle" /\ OracleReturnedFalse })

\* the invocation called set_rule_status
ReachedActuator == Decided /\ NumCalls(last, "set_rule_status") > 0

\* C34: in every invocation that calls set_rule_status, the target is the
\* disabled state only when exactly one of three things held: the hour is before
\* the cutoff, the store reported the child done today, or the oracle returned
\* False; when none held (no store, no oracle, an oracle that raised or reported
\* incomplete tasks) the target is the enabled state.
C34_DefaultDeny ==
    ReachedActuator =>
        /\ Targets \in {{TRUE}, {FALSE}}
        /\ GroundsForDisable <= 1
        /\ Targets = {FALSE} <=> GroundsForDisable = 1

\* on/after the cutoff with neither a store nor an oracle: ENABLE
C34_Witness ==
    /\ ReachedActuator /\ ~HourBeforeCutoff
    /\ ~last.svc.state_manager /\ ~last.svc.todoist
    /\ GroundsForDisable = 0 /\ Targets = {TRUE}

\* the oracle raised: ENABLE
C34_Witness_OracleRaised ==
    /\ ReachedActuator /\ last.res.oracle \in OracleErrors
    /\ GroundsForDisable = 0 /\ Targets = {TRUE}

\* DISABLE on the oracle's False alone, with no store at hand
C34_Witness_OracleFalse ==
    /\ ReachedActuator /\ OracleReturnedFalse /\ ~last.svc.state_manager
    /\ Targets = {FALSE}

\* DISABLE on the store's report alone: the oracle is not asked
C34_Witness_StoreDone ==
    /\ ReachedActuator /\ StoreReportedDone
    /\ NumCalls(last, "are_child_tasks_incomplete") = 0
    /\ Targets = {FALSE}

----------------------------------------------------------------------------
(* C35: the calls of one invocation and their order (SpecChild) *)

\* the place of a call in the order store, oracle, actuator, mark
CallRank(op) ==
    CASE op = "check_if_done_today" -> 1
      [] op = "are_child_tasks_incomplete" -> 2
      [] op = "set_rule_status" -> 3
      [] op = "mark_done_today" -> 4
      [] OTHER -> 0

\* no two calls of a kind, and the calls in that order
CallsInOrder ==
    \A i, j \in DOMAIN last.res.calls :
        i < j => CallRank(last.res.calls[i].op) < CallRank(last.res.calls[j].op)

\* C35: before the cutoff process_child calls neither check_if_done_today nor the
\* oracle; on/after the cutoff, with a store, check_if_done_today is its first
\* call; in every case the oracle is asked at most once, set_rule_status is
\* called once, and the calls come in the order store, oracle, actuator,
\* mark_done_today.
C35_CallOrder ==
    Decided =>
        /\ CallsInOrder
        /\ \A i \in DOMAIN last.res.calls : CallRank(last.res.calls[i].op) > 0
        /\ NumCalls(last, "are_child_tasks_incomplete") <= 1
        /\ NumCalls(last, "set_rule_status") = 1
        /\ HourBeforeCutoff =>
              /\ NumCalls(last, "check_if_done_today") = 0
              /\ NumCalls(last, "are_child_tasks_incomplete") = 0
              /\ last.res.calls[1].op = "set_rule_status"
        /\ (~HourBeforeCutoff /\ last.svc.state_manager) =>
              last.res.calls[1].op = "check_if_done_today"
        /\ (~HourBeforeCutoff /\ ~last.svc.state_manager) =>
              NumCalls(last, "check_if_done_today") = 0

\* all four calls in one invocation: store, oracle, actuator, mark
C35_Witness ==
    /\ Decided /\ Len(last.res.calls) = 4
    /\ last.res.calls[1].op = "check_if_done_today"
    /\ last.res.calls[2].op = "are_child_tasks_incomplete"
    /\ last.res.calls[3] = SetCall(last.cfg.sophos_rule_name, FALSE)
    /\ last.res.calls[4].op = "mark_done_today"

\* before the cutoff: the actuator call alone
C35_Witness_BeforeCutoff ==
    /\ Decided /\ HourBeforeCutoff /\ last.svc.state_manager /\ last.svc.todoist
    /\ last.res.calls = <<SetCall(last.cfg.sophos_rule_name, FALSE)>>

----------------------------------------------------------------------------
(* C36: the abort at the critical service checks (Spec) *)

\* a process gets past the import of config: the step of initialize_services and
\* the critical service checks
ServicesInitialised == Stopped /\ pc' \in {"children", "aborted"}

\* that step gives the run up exactly when the sophos client or the state manager
\* is missing, whatever the todoist client is, and a run given up has touched
\* neither the firewall nor the file
AbortsAtChecks ==
    ServicesInitialised =>
        /\ (pc' = "aborted") <=> (~services'.sophos \/ ~services'.state_manager)
        /\ (pc' = "aborted") =>
              (rules' = rules /\ file' = file /\ saved' = saved /\ last' = NoCall)

\* a run that was given up stays given up: what comes next is another process
\* or the clock
AbortedStays ==
    (pc = "aborted") =>
        (pc' \in {"aborted", "children", "config_error"} /\ rules' = rules /\ file' = file)

\* a run given up made no process_child, oracle, actuator or save_state call
NothingDoneWhenAborted ==
    (pc = "aborted") =>
        /\ LogCount("process_child") = 0
        /\ LogCount("save_state") = 0
        /\ \A i \in DOMAIN log : log[i].op = "load_state"
        /\ last.kind # "call"
        /\ ~services.sophos \/ ~services.state_manager

C36_Witness_OracleAlone ==
    /\ pc = "children" /\ idx = RosterSize
    /\ ~services.todoist /\ services.sophos /\ services.state_manager
    /\ last.kind = "call" /\ NumCalls(last, "set_rule_status") = 1

----------------------------------------------------------------------------
(* C37: apply_firewall_action returns a boolean (SpecChild) *)

\* the latest invocation called apply_firewall_action and set_rule_status did this
ActuatorDid(outcome) ==
    /\ Decided /\ NumCalls(last, "set_rule_status") = 1
    /\ last.res.outcome = outcome

\* C37: whatever set_rule_status does (returns True or False, raises
\* SophosRuleNotFoundError, SophosApiError, SophosConnectionError or any other
\* exception), apply_firewall_action raises nothing and returns a boolean, and
\* it returns True only when set_rule_status returned True.
C37_ApplyNeverRaises ==
    Decided =>
        /\ ~last.res.action_raised
        /\ last.res.action_successful \in BOOLEAN
        /\ last.res.action_successful <=> ActuatorDid("True")
        /\ \A outcome \in {"False", "SophosRuleNotFoundError", "SophosApiError",
                            "SophosConnectionError", "Exception"} :
              ActuatorDid(outcome) =>
                  (~last.res.action_successful /\ last.res.state = last.before)

\* set_rule_status raised an exception that is none of the client's: False
C37_Witness ==
    /\ ActuatorDid("Exception")
    /\ ~last.res.action_raised /\ ~last.res.action_successful

\* the rule was not found: False
C37_Witness_RuleNotFound ==
    /\ ActuatorDid("SophosRuleNotFoundError")
    /\ ~last.res.action_raised /\ ~last.res.action_successful

\* a connection error: False
C37_Witness_ConnectionError ==
    /\ ActuatorDid("SophosConnectionError")
    /\ ~last.res.action_raised /\ ~last.res.action_successful

\* set_rule_status returned True: True
C37_Witness_True ==
    /\ ActuatorDid("True") /\ last.res.action_successful

----------------------------------------------------------------------------
(* C38: the enforcer without a store (SpecEnforcer) *)

\* the latest call came at or after the scheduled time on an enforcer whose
\* state_manager is None
CheckWithoutStore ==
    /\ EnforcedRule /\ ~BeforeScheduled
    /\ ~services.state_manager

\* C38: an enforcer without a store holds nothing back: every call at or after
\* the scheduled time calls set_rule_status once with target_enabled_state=False,
\* asks and records nothing, and returns True exactly when set_rule_status
\* returned True, also when a call for the rule has returned True earlier that
\* day.
C38_NoStoreNoSuppression ==
    CheckWithoutStore =>
        /\ last.res.calls = <<SetCall(last.rule_name, FALSE)>>
        /\ ~last.res.raised
        /\ last.res.ret <=> (last.res.outcome = "True")
        /\ last.res.ret => last.res.rules[last.rule_name] = "disable"
        /\ last.res.state = last.before

\* a second call of the day returns True again: the rule was disabled already
C38_Witness ==
    /\ CheckWithoutStore /\ last.again
    /\ last.res.ret
    /\ last.fw[last.rule_name] = "disable"

\* a call of the day after one that returned True: the actuator fails, False
C38_Witness_LaterFailure ==
    /\ CheckWithoutStore /\ last.again
    /\ ~last.res.ret /\ last.res.outcome # "True"
    /\ Len(EnforcerCalls("set_rule_status")) = 1

====
